---- MODULE Spec2Model ----
(***************************************************************************)
(* Model of the catabus-mcp realtime feed poller (RealtimeGTFSPoller), the *)
(* shared RealtimeData snapshot it publishes into, and the query functions *)
(* that read the snapshot.                                                 *)
(*                                                                         *)
(* The program is a single-threaded asyncio program: a coroutine runs      *)
(* without interruption between two awaits.  Every action below is one     *)
(* such uninterrupted run.  Time advances (Tick) only when every coroutine *)
(* is suspended on a timer or on the network.                              *)
(***************************************************************************)
EXTENDS Integers, Sequences, FiniteSets, TLC

(***************************************************************************)
(* Program constants.                                                      *)
(***************************************************************************)
MIN_POLL_INTERVAL == 15
STAGGER_SLEEP == 5
FETCH_TIMEOUT == 30
\* datetime.fromtimestamp raises for a value past year 9999 (253402300799
\* seconds).  The timestamp fields of the wire messages are counted in units
\* of 1000 seconds, which keeps the limit inside 32-bit integers.
MAX_TIMESTAMP == 253402300

(***************************************************************************)
(* Bounds of the model.                                                    *)
(***************************************************************************)
MaxStarts == 2
MaxTicks == 3
MaxCalls == 2

\* Time advances in steps of the greatest common divisor of the program's
\* three durations, so every timer expires exactly on a step.
Divides(q, n) == n % q = 0
Quantum ==
  CHOOSE q \in 1..STAGGER_SLEEP :
    /\ Divides(q, STAGGER_SLEEP) /\ Divides(q, MIN_POLL_INTERVAL) /\ Divides(q, FETCH_TIMEOUT)
    /\ \A r \in 1..STAGGER_SLEEP :
         (Divides(r, STAGGER_SLEEP) /\ Divides(r, MIN_POLL_INTERVAL) /\ Divides(r, FETCH_TIMEOUT))
           => r <= q
MaxNow == MaxTicks * Quantum

Min(a, b) == IF a < b THEN a ELSE b
Max(a, b) == IF a > b THEN a ELSE b

(***************************************************************************)
(* Python values.  Optional[T] is <<>> for None and <<v>> for a value.     *)
(* A dict is a sequence of [key, val] pairs with distinct keys, in         *)
(* insertion order.                                                        *)
(***************************************************************************)
None == <<>>
Some(v) == <<v>>

DictKeys(d) == {d[i].key : i \in 1..Len(d)}
DictGet(d, k) == d[CHOOSE i \in 1..Len(d) : d[i].key = k].val
\* A variant of DictPut that keeps the old entry next to the new one.
DictPutAppends(d, k, v) == Append(d, [key |-> k, val |-> v])

\* d[k] = v: a key that exists keeps its place.
DictPut(d, k, v) ==
  IF k \in DictKeys(d)
    THEN [i \in 1..Len(d) |-> IF d[i].key = k THEN [key |-> k, val |-> v] ELSE d[i]]
    ELSE Append(d, [key |-> k, val |-> v])

Cats == {"vehicle", "trip", "alert"}

(***************************************************************************)
(* Wire schema.  A feed is a sequence of entities; an entity has an id and *)
(* optional vehicle, trip_update and alert sub-messages.  An optional wire *)
(* field is None when HasField is false.                                   *)
(***************************************************************************)
Entity(id, vehicle, trip_update, alert) ==
  [id |-> id, vehicle |-> vehicle, trip_update |-> trip_update, alert |-> alert]

\* datetime.fromtimestamp(t, tz=timezone.utc): raises past year 9999.
FromTimestampRaises(t) == t > MAX_TIMESTAMP

\* RealtimeGTFSPoller._get_occupancy_status
GetOccupancyStatus(status) ==
  CASE status = 0 -> "EMPTY"
    [] status = 1 -> "MANY_SEATS_AVAILABLE"
    [] status = 2 -> "FEW_SEATS_AVAILABLE"
    [] status = 3 -> "STANDING_ROOM_ONLY"
    [] status = 4 -> "CRUSHED_STANDING_ROOM_ONLY"
    [] status = 5 -> "FULL"
    [] status = 6 -> "NOT_ACCEPTING_PASSENGERS"
    [] OTHER -> "UNKNOWN"

\* RealtimeGTFSPoller._get_severity
GetSeverity(level) ==
  CASE level = 1 -> "UNKNOWN"
    [] level = 2 -> "INFO"
    [] level = 3 -> "WARNING"
    [] level = 4 -> "SEVERE"
    [] OTHER -> "UNKNOWN"

\* The result of a transform: it either raised or produced a container.
Raised == [ok |-> FALSE]
Produced(c) == [ok |-> TRUE, val |-> c]

(***************************************************************************)
(* Vehicle positions: the body of the loop over feed.entity.  The field    *)
(* gen is not program data: it tags every record with the poll generation  *)
(* that built it.                                                          *)
(***************************************************************************)
\* A variant of VehicleKey that ignores the vehicle descriptor.
VehicleKeyEntityId(e) == e.id

VehicleKey(e) ==
  IF e.vehicle[1].vid # "" THEN e.vehicle[1].vid ELSE e.id

HasPosition(e) == e.vehicle # None /\ e.vehicle[1].position # None

MakeVehiclePosition(e, g) ==
  LET v == e.vehicle[1]
      p == v.position[1]
  IN [vehicle_id |-> VehicleKey(e),
      trip_id |-> IF v.trip # None THEN Some(v.trip[1].trip_id) ELSE None,
      route_id |-> IF v.trip # None THEN Some(v.trip[1].route_id) ELSE None,
      latitude |-> p.latitude,
      longitude |-> p.longitude,
      bearing |-> p.bearing,
      speed |-> p.speed,
      timestamp |-> v.timestamp,
      occupancy_status |->
        IF v.occupancy_status # None
          THEN Some(GetOccupancyStatus(v.occupancy_status[1])) ELSE None,
      gen |-> g]

RECURSIVE BuildPositions(_, _, _, _)
BuildPositions(ents, i, g, positions) ==
  IF i > Len(ents) THEN Produced(positions)
  ELSE IF ~HasPosition(ents[i]) THEN BuildPositions(ents, i + 1, g, positions)
  ELSE IF FromTimestampRaises(ents[i].vehicle[1].timestamp) THEN Raised
  ELSE LET pos == MakeVehiclePosition(ents[i], g)
       IN BuildPositions(ents, i + 1, g, DictPut(positions, pos.vehicle_id, pos))

TransformVehicles(ents, g) == BuildPositions(ents, 1, g, <<>>)

(***************************************************************************)
(* Trip updates.  A stop-time update is a Python dict: the keys            *)
(* arrival_delay and arrival_time exist exactly when the wire record has   *)
(* an arrival sub-message (likewise for departure).                        *)
(***************************************************************************)
MakeStopTimeUpdate(stu) ==
  LET base == [stop_id |-> stu.stop_id, stop_sequence |-> stu.stop_sequence]
      arr == IF stu.arrival # None
               THEN [arrival_delay |->
                       IF stu.arrival[1].delay # None THEN stu.arrival[1].delay[1] ELSE 0,
                     arrival_time |-> stu.arrival[1].time]
               ELSE <<>>
      dep == IF stu.departure # None
               THEN [departure_delay |->
                       IF stu.departure[1].delay # None THEN stu.departure[1].delay[1] ELSE 0,
                     departure_time |-> stu.departure[1].time]
               ELSE <<>>
  IN IF stu.arrival # None /\ stu.departure # None THEN base @@ arr @@ dep
     ELSE IF stu.arrival # None THEN base @@ arr
     ELSE IF stu.departure # None THEN base @@ dep
     ELSE base

MakeTripUpdate(e, g, clock) ==
  LET tu == e.trip_update[1]
  IN [trip_id |-> tu.trip.trip_id,
      route_id |-> tu.trip.route_id,
      vehicle_id |-> IF tu.vehicle # None THEN Some(tu.vehicle[1].id) ELSE None,
      timestamp |-> IF tu.timestamp # None THEN tu.timestamp[1] ELSE clock,
      stop_time_updates |->
        [j \in 1..Len(tu.stop_time_update) |-> MakeStopTimeUpdate(tu.stop_time_update[j])],
      gen |-> g]

TripUpdateRaises(e) ==
  /\ e.trip_update[1].timestamp # None
  /\ FromTimestampRaises(e.trip_update[1].timestamp[1])

RECURSIVE BuildUpdates(_, _, _, _, _)
BuildUpdates(ents, i, g, clock, updates) ==
  IF i > Len(ents) THEN Produced(updates)
  ELSE IF ents[i].trip_update = None THEN BuildUpdates(ents, i + 1, g, clock, updates)
  ELSE IF TripUpdateRaises(ents[i]) THEN Raised
  ELSE LET update == MakeTripUpdate(ents[i], g, clock)
       IN BuildUpdates(ents, i + 1, g, clock, DictPut(updates, update.trip_id, update))

TransformTrips(ents, g, clock) == BuildUpdates(ents, 1, g, clock, <<>>)

(***************************************************************************)
(* Alerts.                                                                 *)
(***************************************************************************)
\* for translation in ...: if translation.language == "en" or not text: text = translation.text
RECURSIVE PickTranslation(_, _, _)
PickTranslation(trs, i, text) ==
  IF i > Len(trs) THEN text
  ELSE PickTranslation(trs, i + 1,
         IF trs[i].language = "en" \/ text = "" THEN trs[i].text ELSE text)

TranslatedText(field) ==
  IF field # None THEN PickTranslation(field[1], 1, "") ELSE ""

MakeInformedEntity(sel) ==
  LET r == IF sel.route_id # None THEN [route_id |-> sel.route_id[1]] ELSE <<>>
      t == IF sel.trip # None THEN [trip_id |-> sel.trip[1].trip_id] ELSE <<>>
      s == IF sel.stop_id # None THEN [stop_id |-> sel.stop_id[1]] ELSE <<>>
  IN r @@ t @@ s

PeriodRaises(p) ==
  \/ p.start # None /\ FromTimestampRaises(p.start[1])
  \/ p.end # None /\ FromTimestampRaises(p.end[1])

\* The inner loop "for entity in alert.informed_entity" rebinds the name
\* entity: after it, entity is the last selector when there is one, and a
\* selector has no id field, so reading entity.id raises AttributeError.
AlertIdRaises(e) == Len(e.alert[1].informed_entity) > 0

AlertRaises(e) ==
  \/ \E j \in 1..Len(e.alert[1].active_period) : PeriodRaises(e.alert[1].active_period[j])
  \/ AlertIdRaises(e)

MakeServiceAlert(e, g) ==
  LET a == e.alert[1]
  IN [alert_id |-> e.id,
      header |-> TranslatedText(a.header_text),
      description |-> TranslatedText(a.description_text),
      severity |-> IF a.severity_level # None THEN GetSeverity(a.severity_level[1]) ELSE "UNKNOWN",
      active_periods |-> a.active_period,
      informed_entities |->
        [j \in 1..Len(a.informed_entity) |-> MakeInformedEntity(a.informed_entity[j])],
      gen |-> g]

RECURSIVE BuildAlerts(_, _, _, _)
BuildAlerts(ents, i, g, alerts) ==
  IF i > Len(ents) THEN Produced(alerts)
  ELSE IF ents[i].alert = None THEN BuildAlerts(ents, i + 1, g, alerts)
  ELSE IF AlertRaises(ents[i]) THEN Raised
  ELSE BuildAlerts(ents, i + 1, g, Append(alerts, MakeServiceAlert(ents[i], g)))

TransformAlerts(ents, g) == BuildAlerts(ents, 1, g, <<>>)

\* The try-block of a poll loop after the payload was decoded.
Transform(c, ents, g, clock) ==
  CASE c = "vehicle" -> TransformVehicles(ents, g)
    [] c = "trip" -> TransformTrips(ents, g, clock)
    [] c = "alert" -> TransformAlerts(ents, g)

(***************************************************************************)
(* HTTP bodies and the outcome of one request.                             *)
(***************************************************************************)
\* id is not program data: it names the response, and the records built from
\* a response carry it as their generation tag gen.
EmptyBody == [kind |-> "empty", id |-> 0, ents |-> <<>>]
GarbageBody == [kind |-> "garbage", id |-> 0, ents |-> <<>>]
FeedBody(id, ents) == [kind |-> "feed", id |-> id, ents |-> ents]

NoOutcome == [how |-> "none", body |-> EmptyBody]
Outcome(how, body) == [how |-> how, body |-> body]

\* A variant of FetchProtobuf that hands over the body of a request that ran
\* into the timeout.
FetchProtobufLate(outcome) ==
  IF outcome.how \in {"ok", "timeout"} THEN Some(outcome.body) ELSE None

\* _fetch_protobuf: the bytes of a response that arrived with a good status
\* in time; None for an HTTP error, a network error, a closed session or a
\* request that ran into the timeout (whatever the server would have sent).
FetchProtobuf(outcome) ==
  IF outcome.how = "ok" THEN Some(outcome.body) ELSE None

\* A variant of RunCycle that publishes an empty container when the fetch or
\* the decoding fails.
RunCycleBlanks(c, fetched, clock) ==
  IF fetched = None \/ fetched[1].kind \in {"empty", "garbage"} THEN Produced(<<>>)
  ELSE Transform(c, fetched[1].ents, fetched[1].id, clock)

\* "if data:" is false for None and for zero bytes; ParseFromString raises
\* on bytes that are not a feed message; then the transform runs.
\* The result says whether the cycle reaches the two publishing assignments.
RunCycle(c, fetched, clock) ==
  IF fetched = None \/ fetched[1].kind = "empty" THEN Raised
  ELSE IF fetched[1].kind = "garbage" THEN Raised
  ELSE Transform(c, fetched[1].ents, fetched[1].id, clock)

ContainerOf(c) ==
  CASE c = "vehicle" -> "vehicle_positions"
    [] c = "trip" -> "trip_updates"
    [] c = "alert" -> "alerts"

StampOf(c) ==
  CASE c = "vehicle" -> "last_vehicle_update"
    [] c = "trip" -> "last_trip_update"
    [] c = "alert" -> "last_alert_update"

\* A variant of Publish that extends the container in place.
PublishExtends(d, c, container, clock) ==
  [d EXCEPT ![ContainerOf(c)] = @ \o container, ![StampOf(c)] = Some(clock)]

\* A variant of Publish that keeps one timestamp for the three categories.
PublishStampsAll(d, c, container, clock) ==
  [d EXCEPT ![ContainerOf(c)] = container,
            !.last_vehicle_update = Some(clock),
            !.last_trip_update = Some(clock),
            !.last_alert_update = Some(clock)]

\* self.data.<container> = new; self.data.last_<c>_update = datetime.now(utc)
Publish(d, c, container, clock) ==
  [d EXCEPT ![ContainerOf(c)] = container, ![StampOf(c)] = Some(clock)]

\* RealtimeData()
EmptyRealtimeData ==
  [vehicle_positions |-> <<>>, trip_updates |-> <<>>, alerts |-> <<>>,
   last_vehicle_update |-> None, last_trip_update |-> None, last_alert_update |-> None]

(***************************************************************************)
(* State.                                                                  *)
(***************************************************************************)
VARIABLES
  running,     \* RealtimeGTFSPoller._running
  session,     \* RealtimeGTFSPoller._session: 0 is None, k the session created by start number k
  closed,      \* the sessions that were closed
  nstarts,     \* how many start() calls went past the running test
  starts,      \* the start() coroutines suspended in their stagger sleeps
  tasks,       \* the poll loop tasks, one per start() call and category
  data,        \* RealtimeGTFSPoller.data
  now,         \* the clock, in seconds since the process started
  age,         \* per endpoint: seconds since the last request to it (saturating)
  slow,        \* the endpoint that may answer late or never; the others answer at once
  lastCycle,   \* the last completed cycle: its category, fetch outcome, whether it published
  result,      \* the response of the last query
  initialized, \* server.initialized
  gtfs_data,   \* server.gtfs_data: None or the dataset
  calls        \* the tool calls: not yet made, suspended in ensure_initialized, or done

poller == <<running, session, closed, nstarts, starts, tasks>>
server == <<initialized, gtfs_data, calls>>

vars == <<running, session, closed, nstarts, starts, tasks, data, now, age, slow,
          lastCycle, result, initialized, gtfs_data, calls>>

StartIds == 1..MaxStarts
TaskIds == StartIds \X Cats
CallIds == 1..MaxCalls

\* stopped is not program data: it records that stop() was called after the
\* task was created.
NoTask == [pc |-> "none", timer |-> 0, sess |-> 0, got |-> NoOutcome, stopped |-> FALSE]
\* caller is the tool call awaiting this start(), 0 when it was called directly.
NoStart == [pc |-> "none", timer |-> 0, caller |-> 0]
NoCall == [pc |-> "idle", tool |-> "none"]
NoCycle == [cat |-> "none", how |-> "none", published |-> FALSE]
NoResult == [tool |-> "none", out |-> <<>>]

InitWith(s) ==
  /\ slow = s
  /\ running = FALSE
  /\ session = 0
  /\ closed = {}
  /\ nstarts = 0
  /\ starts = [k \in StartIds |-> NoStart]
  /\ tasks = [t \in TaskIds |-> NoTask]
  /\ data = EmptyRealtimeData
  /\ now = 0
  /\ age = [c \in Cats |-> MIN_POLL_INTERVAL]
  /\ lastCycle = NoCycle
  /\ result = NoResult
  /\ initialized = FALSE
  /\ gtfs_data = None
  /\ calls = [i \in CallIds |-> NoCall]

(***************************************************************************)
(* RealtimeGTFSPoller.start and stop.                                      *)
(***************************************************************************)
\* asyncio.create_task(self._poll_<c>()): the task is ready to run.
CreateTask(ts, k, c) == [ts EXCEPT ![<<k, c>>] = [NoTask EXCEPT !.pc = "ready"]]

\* A variant of BeginStart that creates the three tasks in a row, without
\* the stagger sleeps between them.
BeginStartNoStagger(caller) ==
  /\ nstarts < MaxStarts
  /\ running' = TRUE
  /\ nstarts' = nstarts + 1
  /\ session' = nstarts + 1
  /\ tasks' = CreateTask(CreateTask(CreateTask(tasks, nstarts + 1, "vehicle"),
                                    nstarts + 1, "trip"), nstarts + 1, "alert")
  /\ starts' = [starts EXCEPT ![nstarts + 1] =
                  [pc |-> "sleep2", timer |-> 0, caller |-> caller]]
  /\ UNCHANGED closed

\* start() past the running test, up to its first await.
BeginStart(caller) ==
  /\ nstarts < MaxStarts
  /\ running' = TRUE
  /\ nstarts' = nstarts + 1
  /\ session' = nstarts + 1
  /\ tasks' = CreateTask(tasks, nstarts + 1, "vehicle")
  /\ starts' = [starts EXCEPT ![nstarts + 1] =
                  [pc |-> "sleep1", timer |-> STAGGER_SLEEP, caller |-> caller]]
  /\ UNCHANGED closed

\* start() called directly.
Start ==
  IF running
    THEN UNCHANGED vars
    ELSE /\ BeginStart(0)
         /\ UNCHANGED <<data, now, age, slow, lastCycle, result, server>>

\* A variant of Stop that also puts an empty RealtimeData() in place.
StopClearsSnapshot ==
  /\ running' = FALSE
  /\ closed' = IF session # 0 THEN closed \cup {session} ELSE closed
  /\ tasks' = [t \in TaskIds |->
                 IF tasks[t].pc \in {"none", "done"} THEN tasks[t]
                 ELSE IF tasks[t].pc = "fetching" /\ tasks[t].sess = session
                   THEN [tasks[t] EXCEPT !.pc = "fetched", !.timer = 0, !.stopped = TRUE,
                                         !.got = Outcome("error", EmptyBody)]
                   ELSE [tasks[t] EXCEPT !.stopped = TRUE]]
  /\ data' = EmptyRealtimeData
  /\ UNCHANGED <<session, nstarts, starts, now, age, slow, lastCycle, result, server>>

\* stop(): closing the session fails the requests in flight on it.
Stop ==
  /\ running' = FALSE
  /\ closed' = IF session # 0 THEN closed \cup {session} ELSE closed
  /\ tasks' = [t \in TaskIds |->
                 IF tasks[t].pc \in {"none", "done"} THEN tasks[t]
                 ELSE IF tasks[t].pc = "fetching" /\ tasks[t].sess = session
                   THEN [tasks[t] EXCEPT !.pc = "fetched", !.timer = 0, !.stopped = TRUE,
                                         !.got = Outcome("error", EmptyBody)]
                   ELSE [tasks[t] EXCEPT !.stopped = TRUE]]
  /\ UNCHANGED <<session, nstarts, starts, data, now, age, slow, lastCycle, result, server>>

(***************************************************************************)
(* A poll loop (_poll_vehicle_positions, _poll_trip_updates, _poll_alerts: *)
(* the three differ only in the transform).                                *)
(***************************************************************************)
\* The while test and, when it passes, _fetch_protobuf up to its await.
LoopTest(k, c) ==
  LET t == <<k, c>> IN
  /\ tasks[t].pc = "ready"
  /\ IF ~running
       THEN /\ tasks' = [tasks EXCEPT ![t] = [@ EXCEPT !.pc = "done"]]
            /\ UNCHANGED age
       ELSE IF session = 0 \/ session \in closed
         THEN \* no request is made; data is None and the loop goes to sleep
              /\ tasks' = [tasks EXCEPT ![t] = [@ EXCEPT !.pc = "sleeping",
                                                         !.timer = MIN_POLL_INTERVAL]]
              /\ UNCHANGED age
         ELSE /\ tasks' = [tasks EXCEPT ![t] = [@ EXCEPT !.pc = "fetching", !.sess = session]]
              /\ age' = [age EXCEPT ![c] = 0]
  /\ UNCHANGED <<running, session, closed, nstarts, starts, data, now, slow, lastCycle,
                 result, server>>

\* The network delivers a response (or an error) before the timeout; only
\* the slow endpoint takes time to answer.
Respond(k, c, outcome) ==
  LET t == <<k, c>> IN
  /\ tasks[t].pc = "fetching"
  /\ tasks[t].timer < FETCH_TIMEOUT
  /\ c = slow \/ tasks[t].timer = 0
  /\ outcome.how \in {"ok", "error"}
  /\ tasks' = [tasks EXCEPT ![t] = [@ EXCEPT !.pc = "fetched", !.timer = 0, !.got = outcome]]
  /\ UNCHANGED <<running, session, closed, nstarts, starts, data, now, age, slow,
                 lastCycle, result, server>>

\* The request reaches timeout=30; late is the body the server would have sent.
Timeout(k, c, late) ==
  LET t == <<k, c>> IN
  /\ tasks[t].pc = "fetching"
  /\ tasks[t].timer >= FETCH_TIMEOUT
  /\ tasks' = [tasks EXCEPT ![t] = [@ EXCEPT !.pc = "fetched", !.timer = 0,
                                             !.got = Outcome("timeout", late)]]
  /\ UNCHANGED <<running, session, closed, nstarts, starts, data, now, age, slow,
                 lastCycle, result, server>>

\* A variant of AfterCycle in which a failed cycle ends the loop.
AfterCycleFailureEnds(r) == IF r.ok THEN "sleeping" ELSE "done"

\* Where the loop is after the try block: no exception leaves the block, so
\* it is always at asyncio.sleep(MIN_POLL_INTERVAL).
AfterCycle(r) == "sleeping"

\* The loop resumes with the result of _fetch_protobuf, runs the rest of the
\* try block and goes on to the sleep.
Resume(k, c) ==
  LET t == <<k, c>>
      r == RunCycle(c, FetchProtobuf(tasks[t].got), now)
  IN
  /\ tasks[t].pc = "fetched"
  /\ IF r.ok
       THEN data' = Publish(data, c, r.val, now)
       ELSE UNCHANGED data
  /\ lastCycle' = [cat |-> c, how |-> tasks[t].got.how, published |-> r.ok]
  /\ tasks' = [tasks EXCEPT ![t] = [@ EXCEPT !.pc = AfterCycle(r), !.timer = MIN_POLL_INTERVAL,
                                             !.sess = 0, !.got = NoOutcome]]
  /\ UNCHANGED <<running, session, closed, nstarts, starts, now, age, slow, result, server>>

\* asyncio.sleep(MIN_POLL_INTERVAL) is over: the task is ready again.
Wake(k, c) ==
  LET t == <<k, c>> IN
  /\ tasks[t].pc = "sleeping"
  /\ tasks[t].timer = 0
  /\ tasks' = [tasks EXCEPT ![t] = [@ EXCEPT !.pc = "ready"]]
  /\ UNCHANGED <<running, session, closed, nstarts, starts, data, now, age, slow,
                 lastCycle, result, server>>

(***************************************************************************)
(* The event loop lets time pass only when nothing is ready to run, and    *)
(* the endpoints other than the slow one have answered.                    *)
(***************************************************************************)
Runnable(t) ==
  \/ tasks[t].pc \in {"ready", "fetched"}
  \/ tasks[t].pc = "sleeping" /\ tasks[t].timer = 0
  \/ tasks[t].pc = "fetching" /\ tasks[t].timer >= FETCH_TIMEOUT

StartRunnable(k) == starts[k].pc \in {"sleep1", "sleep2"} /\ starts[k].timer = 0

Tick ==
  /\ \A t \in TaskIds : ~Runnable(t)
  /\ \A t \in TaskIds : tasks[t].pc = "fetching" => t[2] = slow
  /\ \A k \in StartIds : ~StartRunnable(k)
  /\ now' = Min(now + Quantum, MaxNow)
  /\ age' = [c \in Cats |-> Min(age[c] + Quantum, MIN_POLL_INTERVAL)]
  /\ tasks' = [t \in TaskIds |->
                 CASE tasks[t].pc = "sleeping" -> [tasks[t] EXCEPT !.timer = Max(@ - Quantum, 0)]
                   [] tasks[t].pc = "fetching" ->
                        [tasks[t] EXCEPT !.timer = Min(@ + Quantum, FETCH_TIMEOUT)]
                   [] OTHER -> tasks[t]]
  /\ starts' = [k \in StartIds |->
                  IF starts[k].pc \in {"sleep1", "sleep2"}
                    THEN [starts[k] EXCEPT !.timer = Max(@ - Quantum, 0)]
                    ELSE starts[k]]
  /\ UNCHANGED <<running, session, closed, nstarts, data, slow, lastCycle, result, server>>

(***************************************************************************)
(* The feeds the upstream endpoints serve in the poller specification.     *)
(***************************************************************************)
Position(lat, lon) == [latitude |-> lat, longitude |-> lon, bearing |-> None, speed |-> None]
TripDescriptor(trip_id, route_id) == [trip_id |-> trip_id, route_id |-> route_id]
VehicleMsg(vid, position, trip, timestamp) ==
  [vid |-> vid, position |-> position, trip |-> trip, timestamp |-> timestamp,
   occupancy_status |-> None]
VehicleEntity(id, vid, position, trip, timestamp) ==
  Entity(id, Some(VehicleMsg(vid, position, trip, timestamp)), None, None)

StopTimeEvent(delay, time) == [delay |-> delay, time |-> time]
StopTimeUpdate(stop_id, arrival, departure) ==
  [stop_id |-> stop_id, stop_sequence |-> None, arrival |-> arrival, departure |-> departure]
TripUpdateMsg(trip_id, route_id, timestamp, stus) ==
  [trip |-> [trip_id |-> trip_id, route_id |-> route_id], vehicle |-> None,
   timestamp |-> timestamp, stop_time_update |-> stus]
TripEntity(id, trip_id, route_id, timestamp, stus) ==
  Entity(id, None, Some(TripUpdateMsg(trip_id, route_id, timestamp, stus)), None)

Translation(language, text) == [language |-> language, text |-> text]
Selector(route_id, trip, stop_id) == [route_id |-> route_id, trip |-> trip, stop_id |-> stop_id]
AlertMsg(header, description, severity, periods, informed) ==
  [header_text |-> header, description_text |-> description, severity_level |-> severity,
   active_period |-> periods, informed_entity |-> informed]
AlertEntity(id, header, description, severity, periods, informed) ==
  Entity(id, None, None, Some(AlertMsg(header, description, severity, periods, informed)))

PollBodies(c) ==
  CASE c = "vehicle" ->
         { FeedBody(1, <<VehicleEntity("e1", "v1", Some(Position(40, 77)), Some(TripDescriptor("T1", "BL")), 100),
                         VehicleEntity("e2", "", Some(Position(41, 78)), None, 100),
                         VehicleEntity("e5", "v5", None, Some(TripDescriptor("T5", "BL")), 100)>>),
           FeedBody(2, <<VehicleEntity("e3", "v3", Some(Position(42, 79)), Some(TripDescriptor("T2", "BL")), 200),
                         Entity("e4", None, None, None),
                         VehicleEntity("e6", "v6", Some(Position(43, 80)), Some(TripDescriptor("T3", "BL")), 200)>>),
           FeedBody(3, <<VehicleEntity("e7", "v7", Some(Position(40, 77)), None, MAX_TIMESTAMP + 1)>>),
           GarbageBody, EmptyBody }
    [] c = "trip" ->
         { FeedBody(1, <<TripEntity("e1", "T1", Some("BL"), Some(100),
                                 <<StopTimeUpdate("S1", Some(StopTimeEvent(Some(60), None)), None)>>)>>),
           FeedBody(2, <<TripEntity("e2", "T1", Some("BL"), None,
                                 <<StopTimeUpdate("S1", Some(StopTimeEvent(Some(120), None)), None)>>),
                      TripEntity("e3", "T2", None, Some(200), <<>>)>>),
           FeedBody(3, <<TripEntity("e4", "T3", None, Some(MAX_TIMESTAMP + 1), <<>>)>>),
           GarbageBody, EmptyBody }
    [] c = "alert" ->
         { FeedBody(1, <<AlertEntity("a1", Some(<<Translation("en", "Detour")>>), None, Some(3), <<>>, <<>>)>>),
           FeedBody(2, <<AlertEntity("a2", Some(<<Translation("es", "Desvio")>>), None, None, <<>>, <<>>),
                      AlertEntity("a3", None, None, Some(2), <<>>, <<>>)>>),
           FeedBody(3, <<AlertEntity("a4", Some(<<Translation("en", "Closed")>>), None, Some(4), <<>>,
                                  <<Selector(Some("BL"), None, None)>>)>>),
           GarbageBody, EmptyBody }

\* What an endpoint may answer: an error, or a good status with one of bodies.
Outcomes(bodies) == {Outcome("error", EmptyBody)} \cup {Outcome("ok", b) : b \in bodies}

\* The poller specification keeps to one feed and one undecodable body each.
LifeBodies(c) == {b \in PollBodies(c) : b.id = 1} \cup {GarbageBody}

(***************************************************************************)
(* The query functions.  None of them awaits anything, so a call is one    *)
(* uninterrupted run.  Every returned entry carries the generation tag of  *)
(* the realtime record it was computed from (gen; None when it used none). *)
(***************************************************************************)
\* tools/vehicle_positions.py
\* A variant of VehiclePositions that also returns the vehicles without a
\* route.
VehiclePositionsOrUnrouted(realtime_data, route_id) ==
  LET OnRoute(item) == item.val.route_id \in {Some(route_id), None}
      matching == SelectSeq(realtime_data.vehicle_positions, OnRoute)
  IN [i \in 1..Len(matching) |->
        [vehicle_id |-> matching[i].key,
         lat |-> matching[i].val.latitude,
         lon |-> matching[i].val.longitude,
         bearing |-> matching[i].val.bearing,
         speed_mps |-> matching[i].val.speed,
         gen |-> Some(matching[i].val.gen)]]

VehiclePositions(realtime_data, route_id) ==
  LET OnRoute(item) == item.val.route_id = Some(route_id)
      matching == SelectSeq(realtime_data.vehicle_positions, OnRoute)
  IN [i \in 1..Len(matching) |->
        [vehicle_id |-> matching[i].key,
         lat |-> matching[i].val.latitude,
         lon |-> matching[i].val.longitude,
         bearing |-> matching[i].val.bearing,
         speed_mps |-> matching[i].val.speed,
         gen |-> Some(matching[i].val.gen)]]

\* tools/trip_alerts.py; route_id is None or Some(r), and "if route_id" is
\* false for None and for the empty string.
AffectedRoutes(alert) ==
  LET HasRoute(ie) == "route_id" \in DOMAIN ie
      withRoute == SelectSeq(alert.informed_entities, HasRoute)
  IN [i \in 1..Len(withRoute) |-> withRoute[i].route_id]

\* A variant of AlertRelevant that looks at the first informed entity only.
AlertRelevantFirstEntity(alert, route_id) ==
  /\ alert.informed_entities # <<>>
  /\ "route_id" \in DOMAIN alert.informed_entities[1]
  /\ alert.informed_entities[1].route_id = route_id

AlertRelevant(alert, route_id) ==
  \E j \in 1..Len(alert.informed_entities) :
    /\ "route_id" \in DOMAIN alert.informed_entities[j]
    /\ alert.informed_entities[j].route_id = route_id

TripAlerts(realtime_data, route_id) ==
  LET Wanted(alert) ==
        IF route_id # None /\ route_id[1] # "" THEN AlertRelevant(alert, route_id[1]) ELSE TRUE
      matching == SelectSeq(realtime_data.alerts, Wanted)
  IN [i \in 1..Len(matching) |->
        LET affected == AffectedRoutes(matching[i])
        IN [route_id |-> IF Len(affected) = 1 THEN Some(affected[1]) ELSE None,
            affected_routes |-> affected,
            header |-> matching[i].header,
            description |-> matching[i].description,
            severity |-> matching[i].severity,
            gen |-> Some(matching[i].gen)]]
(***************************************************************************)
(* tools/next_arrivals.py.  An aware datetime is its wall-clock reading in *)
(* seconds since 00:00:00 of day 0 together with its UTC offset; the       *)
(* instant it denotes is wall - off.  A GTFS time string is the sequence   *)
(* of the numbers between its colons.                                      *)
(***************************************************************************)
SECONDS_PER_DAY == 86400
\* pytz.timezone("America/New_York") attached by datetime.combine: pytz's
\* zone object as such carries the zone's local mean time, UTC-4:56.
LMT_OFFSET == 0 - 17760
\* datetime.now(eastern): Eastern standard or daylight time.
EST_OFFSET == 0 - 18000
EDT_OFFSET == 0 - 14400

DateTime(wall, off) == [wall |-> wall, off |-> off]
Instant(dt) == dt.wall - dt.off
DateOf(dt) == dt.wall \div SECONDS_PER_DAY
PlusSeconds(dt, n) == DateTime(dt.wall + n, dt.off)
\* datetime.fromtimestamp(t, tz=timezone.utc)
FromTimestampUtc(t) == DateTime(t, 0)

\* isoformat() strings compare by the date and time digits first and by the
\* offset text after them, where "+00:00" sorts before "-04:56".
IsoOffsetRank(off) == IF off >= 0 THEN 0 ELSE 1
IsoBefore(a, b) ==
  \/ a.wall < b.wall
  \/ a.wall = b.wall /\ IsoOffsetRank(a.off) < IsoOffsetRank(b.off)

\* A time string is the sequence of the code points of its characters:
\* <<50, 53, 58, 51, 48, 58, 48, 48>> is "25:30:00".  Colon is the separator
\* of its fields, and Zero the code point of the digit 0.
Colon == 58
Zero == 48

\* str.split(sep)
RECURSIVE Split(_, _)
Split(text, sep) ==
  LET at == {i \in 1..Len(text) : text[i] = sep}
  IN IF at = {} THEN <<text>>
     ELSE LET i == CHOOSE j \in at : \A k \in at : j <= k
          IN <<SubSeq(text, 1, i - 1)>> \o Split(SubSeq(text, i + 1, Len(text)), sep)

\* int(text) on a text of decimal digits
RECURSIVE ToInt(_)
ToInt(text) ==
  IF text = <<>> THEN 0
  ELSE ToInt(SubSeq(text, 1, Len(text) - 1)) * 10 + (text[Len(text)] - Zero)

\* A variant of ParseGtfsTime that takes every hour from 24 on for an hour
\* of the next day.
ParseGtfsTimeNextDayOnly(time_str) ==
  LET parts == Split(time_str, Colon)
      hours == ToInt(parts[1])
      minutes == ToInt(parts[2])
      seconds == IF Len(parts) > 2 THEN ToInt(parts[3]) ELSE 0
  IN [hour |-> hours % 24, minute |-> minutes, second |-> seconds,
      days_offset |-> IF hours >= 24 THEN 1 ELSE 0]

ParseGtfsTime(time_str) ==
  LET parts == Split(time_str, Colon)
      hours == ToInt(parts[1])
      minutes == ToInt(parts[2])
      seconds == IF Len(parts) > 2 THEN ToInt(parts[3]) ELSE 0
  IN [hour |-> hours % 24, minute |-> minutes, second |-> seconds,
      days_offset |-> hours \div 24]

\* datetime.combine(now.date() + timedelta(days=days_offset), arrival_time, eastern)
ScheduledDateTime(current, time_str) ==
  LET t == ParseGtfsTime(time_str)
  IN DateTime((DateOf(current) + t.days_offset) * SECONDS_PER_DAY
                + t.hour * 3600 + t.minute * 60 + t.second,
              LMT_OFFSET)

\* A variant of InWindow whose upper bound is exclusive.
InWindowBeforeHorizon(current, horizon, scheduled) ==
  /\ current.wall - current.off <= scheduled.wall - scheduled.off
  /\ scheduled.wall - scheduled.off < horizon.wall - horizon.off

\* now <= scheduled_datetime <= horizon, a comparison of instants.
InWindow(current, horizon, scheduled) ==
  /\ Instant(current) <= Instant(scheduled)
  /\ Instant(scheduled) <= Instant(horizon)

\* The first loop: the dict scheduled, keyed by trip id.
RECURSIVE BuildScheduled(_, _, _, _, _, _)
BuildScheduled(gtfs, stop_id, current, horizon, i, scheduled) ==
  IF i > Len(gtfs.stop_times) THEN scheduled
  ELSE LET st == gtfs.stop_times[i]
           when == ScheduledDateTime(current, st.arrival_time)
       IN IF st.stop_id = stop_id
             /\ InWindow(current, horizon, when)
             /\ st.trip_id \in DictKeys(gtfs.trips)
            THEN BuildScheduled(gtfs, stop_id, current, horizon, i + 1,
                   DictPut(scheduled, st.trip_id,
                           [trip_id |-> st.trip_id,
                            route_id |-> DictGet(gtfs.trips, st.trip_id).route_id,
                            scheduled_arrival |-> when,
                            stop_sequence |-> st.stop_sequence]))
            ELSE BuildScheduled(gtfs, stop_id, current, horizon, i + 1, scheduled)

\* A variant of FirstMatch that lets the last matching entry win.
LastMatch(stus, stop_id) ==
  LET hits == {j \in 1..Len(stus) : stus[j].stop_id = stop_id}
  IN IF hits = {} THEN 0 ELSE CHOOSE j \in hits : \A h \in hits : j >= h

\* "for stu in trip_update.stop_time_updates: if stu.get("stop_id") ==
\* stop_id: ... break": the index of the first entry with the stop id, 0
\* when there is none.
FirstMatch(stus, stop_id) ==
  LET hits == {j \in 1..Len(stus) : stus[j].stop_id = stop_id}
  IN IF hits = {} THEN 0 ELSE CHOOSE j \in hits : \A h \in hits : j <= h

\* A variant of ApplyStopTimeUpdate that takes a negative delay for none.
ApplyStopTimeUpdateLateOnly(seen, scheduled_arrival, stu) ==
  IF "arrival_delay" \in DOMAIN stu
    THEN LET d == IF stu.arrival_delay > 0 THEN stu.arrival_delay ELSE 0
         IN [seen EXCEPT !.delay_sec = d,
                         !.arrival_time_iso = [wall |-> scheduled_arrival.wall + d,
                                               off |-> scheduled_arrival.off]]
    ELSE seen

\* The if / elif on the matched stop-time update.
ApplyStopTimeUpdate(seen, scheduled_arrival, stu) ==
  IF "arrival_delay" \in DOMAIN stu
    THEN [seen EXCEPT
            !.delay_sec = stu.arrival_delay,
            !.arrival_time_iso = PlusSeconds(scheduled_arrival, stu.arrival_delay)]
  ELSE IF "arrival_time" \in DOMAIN stu
          /\ stu.arrival_time # None /\ stu.arrival_time[1] # 0
    THEN LET arrival_dt == FromTimestampUtc(stu.arrival_time[1])
         IN [seen EXCEPT
               !.arrival_time_iso = arrival_dt,
               !.delay_sec = Instant(arrival_dt) - Instant(scheduled_arrival)]
  ELSE seen

\* The body of the second loop for one scheduled trip.
ArrivalInfo(realtime_data, stop_id, info) ==
  LET base == [trip_id |-> info.trip_id, route_id |-> info.route_id,
               arrival_time_iso |-> info.scheduled_arrival, delay_sec |-> 0, gen |-> None]
  IN IF info.trip_id \notin DictKeys(realtime_data.trip_updates) THEN base
     ELSE
       LET trip_update == DictGet(realtime_data.trip_updates, info.trip_id)
           stus == trip_update.stop_time_updates
           first == FirstMatch(stus, stop_id)
           seen == [base EXCEPT !.gen = Some(trip_update.gen)]
       IN IF first = 0 THEN seen
          ELSE ApplyStopTimeUpdate(seen, info.scheduled_arrival, stus[first])

\* arrivals.sort(key=lambda x: x["arrival_time_iso"]): a stable sort.
RECURSIVE InsertArrival(_, _)
InsertArrival(sorted, x) ==
  IF sorted = <<>> THEN <<x>>
  ELSE IF IsoBefore(x.arrival_time_iso, sorted[Len(sorted)].arrival_time_iso)
    THEN Append(InsertArrival(SubSeq(sorted, 1, Len(sorted) - 1), x), sorted[Len(sorted)])
    ELSE Append(sorted, x)

RECURSIVE SortArrivals(_)
SortArrivals(arrivals) ==
  IF arrivals = <<>> THEN <<>>
  ELSE InsertArrival(SortArrivals(SubSeq(arrivals, 1, Len(arrivals) - 1)),
                     arrivals[Len(arrivals)])

\* A variant of NextArrivals that also predicts, at the current time, the
\* trips that have a stop-time update for the stop and no scheduled arrival.
NextArrivalsWithLiveTrips(gtfs, realtime_data, stop_id, horizon_minutes, current) ==
  LET horizon == PlusSeconds(current, horizon_minutes * 60)
      scheduled == BuildScheduled(gtfs, stop_id, current, horizon, 1, <<>>)
      arrivals == [i \in 1..Len(scheduled) |->
                     ArrivalInfo(realtime_data, stop_id, scheduled[i].val)]
      Unscheduled(u) ==
        /\ u.key \notin DictKeys(scheduled)
        /\ FirstMatch(u.val.stop_time_updates, stop_id) # 0
      live == SelectSeq(realtime_data.trip_updates, Unscheduled)
      extra == [k \in 1..Len(live) |->
                  [trip_id |-> live[k].key, route_id |-> live[k].val.route_id,
                   arrival_time_iso |-> current, delay_sec |-> 0,
                   gen |-> Some(live[k].val.gen)]]
  IN SortArrivals(arrivals \o extra)

\* A variant of NextArrivals that tests the window on the predicted instant
\* as well.
NextArrivalsPredictedInWindow(gtfs, realtime_data, stop_id, horizon_minutes, current) ==
  LET horizon == PlusSeconds(current, horizon_minutes * 60)
      scheduled == BuildScheduled(gtfs, stop_id, current, horizon, 1, <<>>)
      arrivals == [i \in 1..Len(scheduled) |->
                     ArrivalInfo(realtime_data, stop_id, scheduled[i].val)]
      Due(a) == InWindow(current, horizon, a.arrival_time_iso)
  IN SortArrivals(SelectSeq(arrivals, Due))

\* current is datetime.now(eastern).
NextArrivals(gtfs, realtime_data, stop_id, horizon_minutes, current) ==
  LET horizon == PlusSeconds(current, horizon_minutes * 60)
      scheduled == BuildScheduled(gtfs, stop_id, current, horizon, 1, <<>>)
      arrivals == [i \in 1..Len(scheduled) |->
                     ArrivalInfo(realtime_data, stop_id, scheduled[i].val)]
  IN SortArrivals(arrivals)

(***************************************************************************)
(* Query calls on the poller's snapshot.                                   *)
(***************************************************************************)
Answer(tool, out) == [tool |-> tool, out |-> out]

CallVehiclePositions(route_id) ==
  /\ result' = Answer("vehicle_positions", VehiclePositions(data, route_id))
  /\ UNCHANGED <<poller, data, now, age, slow, lastCycle, server>>

CallTripAlerts(route_id) ==
  /\ result' = Answer("trip_alerts", TripAlerts(data, route_id))
  /\ UNCHANGED <<poller, data, now, age, slow, lastCycle, server>>

\* The process starts at 09:00:00 Eastern standard time of day 0.
StartWall == 9 * 3600
WallClock == DateTime(StartWall + now, EST_OFFSET)

CallNextArrivals(gtfs, stop_id, horizon_minutes) ==
  /\ result' = Answer("next_arrivals",
                      NextArrivals(gtfs, data, stop_id, horizon_minutes, WallClock))
  /\ UNCHANGED <<poller, data, now, age, slow, lastCycle, server>>

(***************************************************************************)
(* tools/list_routes.py and tools/search_stops.py.  A text that is         *)
(* searched or sorted is the sequence of the code points of its            *)
(* characters: <<72, 85, 66>> is "HUB".                                    *)
(***************************************************************************)
\* A variant of Lower that leaves the case of the letters as it is.
LowerKeepsCase(text) == text

\* str.lower() on the letters A-Z
LowerChar(ch) == IF ch >= 65 /\ ch <= 90 THEN ch + 32 ELSE ch
Lower(text) == [i \in 1..Len(text) |-> LowerChar(text[i])]

\* "needle in hay": true for the empty needle
Contains(hay, needle) ==
  \E i \in 0..(Len(hay) - Len(needle)) : SubSeq(hay, i + 1, i + Len(needle)) = needle

\* a < b on str
RECURSIVE TextBefore(_, _)
TextBefore(a, b) ==
  IF b = <<>> THEN FALSE
  ELSE IF a = <<>> THEN TRUE
  ELSE IF a[1] # b[1] THEN a[1] < b[1]
  ELSE TextBefore(Tail(a), Tail(b))

\* list.sort(key=...): a stable sort of items [sortkey, item] by sortkey.
RECURSIVE InsertByKey(_, _)
InsertByKey(sorted, x) ==
  IF sorted = <<>> THEN <<x>>
  ELSE IF TextBefore(x.sortkey, sorted[Len(sorted)].sortkey)
    THEN Append(InsertByKey(SubSeq(sorted, 1, Len(sorted) - 1), x), sorted[Len(sorted)])
    ELSE Append(sorted, x)

RECURSIVE SortByKey(_)
SortByKey(items) ==
  IF items = <<>> THEN <<>>
  ELSE InsertByKey(SortByKey(SubSeq(items, 1, Len(items) - 1)), items[Len(items)])

\* A variant of ListRoutes that returns the routes in insertion order.
ListRoutesInsertionOrder(gtfs) ==
  [i \in 1..Len(gtfs.routes) |->
     LET route == gtfs.routes[i].val
     IN [route_id |-> route.route_id,
         short_name |-> route.route_short_name,
         long_name |-> route.route_long_name,
         color |-> IF route.route_color # None /\ route.route_color[1] # <<>>
                     THEN Some(<<35>> \o route.route_color[1])
                     ELSE None]]

\* tools/list_routes.py
ListRoutes(gtfs) ==
  LET routes == [i \in 1..Len(gtfs.routes) |->
                   LET route == gtfs.routes[i].val
                   IN [sortkey |-> route.route_short_name,
                       item |-> [route_id |-> route.route_id,
                                 short_name |-> route.route_short_name,
                                 long_name |-> route.route_long_name,
                                 color |-> IF route.route_color # None /\ route.route_color[1] # <<>>
                                             THEN Some(<<35>> \o route.route_color[1])
                                             ELSE None]]]
      sorted == SortByKey(routes)
  IN [i \in 1..Len(sorted) |-> sorted[i].item]

\* The condition of search_stops on one stop.
StopMatches(stop, query_lower) ==
  \/ Contains(Lower(stop.stop_id), query_lower)
  \/ Contains(Lower(stop.stop_name), query_lower)
  \/ stop.stop_code # None /\ stop.stop_code[1] # <<>>
       /\ Contains(Lower(stop.stop_code[1]), query_lower)
  \/ stop.stop_desc # None /\ stop.stop_desc[1] # <<>>
       /\ Contains(Lower(stop.stop_desc[1]), query_lower)

\* tools/search_stops.py
SearchStops(gtfs, query) ==
  LET Hit(entry) == StopMatches(entry.val, Lower(query))
      hits == SelectSeq(gtfs.stops, Hit)
      results == [i \in 1..Len(hits) |->
                    [sortkey |-> hits[i].val.stop_name,
                     item |-> [stop_id |-> hits[i].val.stop_id,
                               name |-> hits[i].val.stop_name,
                               lat |-> hits[i].val.stop_lat,
                               lon |-> hits[i].val.stop_lon]]]
      sorted == SortByKey(results)
  IN [i \in 1..Len(sorted) |-> sorted[i].item]

(***************************************************************************)
(* server.py: ensure_initialized and the query tools.                      *)
(***************************************************************************)
\* GTFSData()
EmptyGTFSData == [routes |-> <<>>, stops |-> <<>>, trips |-> <<>>, stop_times |-> <<>>]

\* ensure_initialized calls static_loader.load_feed(force_refresh=False,
\* timeout_seconds=10), and load_feed is declared with force_refresh only:
\* the call raises TypeError before anything is awaited, and the handler
\* "except Exception" puts the empty dataset in place.
LoadFeedParameters == {"force_refresh"}
LoadFeedArguments == {"force_refresh", "timeout_seconds"}
LoadFeedRaises == ~(LoadFeedArguments \subseteq LoadFeedParameters)

\* The table a static tool reads.
TableOf(tool) ==
  CASE tool = "list_routes_tool" -> "routes"
    [] tool = "search_stops_tool" -> "stops"
    [] tool = "next_arrivals_tool" -> "stop_times"

StaticTools == {"list_routes_tool", "search_stops_tool", "next_arrivals_tool"}

\* A variant of NoStaticData that tests the table only.
NoStaticDataTableOnly(gtfs, table) == gtfs # <<>> /\ gtfs[1][table] = <<>>

\* "not gtfs_data or not gtfs_data.<table>"
NoStaticData(gtfs, table) == gtfs = None \/ gtfs[1][table] = <<>>

\* The tool goes past its guard with gtfs_data = None, and the function it
\* calls raises AttributeError on the first attribute it reads.
ToolRaises(call, gtfs) ==
  /\ call.tool \in StaticTools
  /\ ~NoStaticData(gtfs, TableOf(call.tool))
  /\ gtfs = None

\* The body of a query tool after "await ensure_initialized()".
ToolBody(call, gtfs, realtime_data, current) ==
  CASE call.tool \in StaticTools ->
         IF NoStaticData(gtfs, TableOf(call.tool)) \/ ToolRaises(call, gtfs) THEN <<>>
         ELSE (CASE call.tool = "list_routes_tool" -> ListRoutes(gtfs[1])
                 [] call.tool = "search_stops_tool" -> SearchStops(gtfs[1], call.arg)
                 [] call.tool = "next_arrivals_tool" ->
                      NextArrivals(gtfs[1], realtime_data, call.arg, 30, current))
    [] call.tool = "vehicle_positions_tool" -> VehiclePositions(realtime_data, call.arg)
    [] call.tool = "trip_alerts_tool" -> TripAlerts(realtime_data, call.arg)
    [] call.tool = "initialize_data" ->
         [status |-> "initialized",
          routes_loaded |-> IF gtfs # None THEN Len(gtfs[1].routes) ELSE 0,
          stops_loaded |-> IF gtfs # None THEN Len(gtfs[1].stops) ELSE 0]

\* ensure_initialized after "await realtime_poller.start()" has returned, and
\* the tool body.
FinishCall(i, call, gtfs) ==
  /\ initialized' = TRUE
  /\ calls' = [calls EXCEPT ![i] = [pc |-> "done", tool |-> call.tool]]
  /\ result' = Answer(call.tool, ToolBody(call, gtfs, data, WallClock))

\* A variant of ToolCall in which start() has no test of the running flag.
ToolCallStartsAgain(i, call) ==
  /\ calls[i].pc = "idle"
  /\ \A j \in CallIds : j < i => calls[j].pc # "idle"
  /\ IF initialized
       THEN /\ calls' = [calls EXCEPT ![i] = [pc |-> "done", tool |-> call.tool]]
            /\ result' = Answer(call.tool, ToolBody(call, gtfs_data, data, WallClock))
            /\ UNCHANGED <<poller, initialized, gtfs_data>>
       ELSE /\ LoadFeedRaises
            /\ gtfs_data' = Some(EmptyGTFSData)
            /\ BeginStart(i)
            /\ calls' = [calls EXCEPT ![i] = [pc |-> "starting", tool |-> call.tool,
                                              arg |-> call.arg]]
            /\ UNCHANGED <<initialized, result>>
  /\ UNCHANGED <<data, now, age, slow, lastCycle>>

\* A client calls a query tool.  The call runs until it returns or until
\* start() suspends it in the first stagger sleep.
ToolCall(i, call) ==
  /\ calls[i].pc = "idle"
  /\ \A j \in CallIds : j < i => calls[j].pc # "idle"
  /\ IF initialized
       THEN /\ calls' = [calls EXCEPT ![i] = [pc |-> "done", tool |-> call.tool]]
            /\ result' = Answer(call.tool, ToolBody(call, gtfs_data, data, WallClock))
            /\ UNCHANGED <<poller, initialized, gtfs_data>>
       ELSE /\ LoadFeedRaises
            /\ gtfs_data' = Some(EmptyGTFSData)
            /\ IF running
                 THEN /\ FinishCall(i, call, Some(EmptyGTFSData))
                      /\ UNCHANGED poller
                 ELSE /\ BeginStart(i)
                      /\ calls' = [calls EXCEPT ![i] = [pc |-> "starting", tool |-> call.tool,
                                                        arg |-> call.arg]]
                      /\ UNCHANGED <<initialized, result>>
  /\ UNCHANGED <<data, now, age, slow, lastCycle>>

\* start() resumes from a stagger sleep and creates the next task; after the
\* last one it returns, and a tool call awaiting it goes on.
StartResume(k) ==
  /\ starts[k].pc \in {"sleep1", "sleep2"}
  /\ starts[k].timer = 0
  /\ IF starts[k].pc = "sleep1"
       THEN /\ tasks' = CreateTask(tasks, k, "trip")
            /\ starts' = [starts EXCEPT ![k] = [@ EXCEPT !.pc = "sleep2", !.timer = STAGGER_SLEEP]]
            /\ UNCHANGED <<result, server>>
       ELSE /\ tasks' = CreateTask(tasks, k, "alert")
            /\ starts' = [starts EXCEPT ![k] = [@ EXCEPT !.pc = "done"]]
            /\ IF starts[k].caller = 0
                 THEN UNCHANGED <<result, server>>
                 ELSE /\ FinishCall(starts[k].caller, calls[starts[k].caller], gtfs_data)
                      /\ UNCHANGED gtfs_data
  /\ UNCHANGED <<running, session, closed, nstarts, data, now, age, slow, lastCycle>>

ToolCalls ==
  { [tool |-> "vehicle_positions_tool", arg |-> "BL"],
    [tool |-> "trip_alerts_tool", arg |-> None],
    [tool |-> "next_arrivals_tool", arg |-> "S1"] }

(***************************************************************************)
(* The poller specification: start() is called once and stop() at any      *)
(* moment, the three loops run, one endpoint is slow.                      *)
(***************************************************************************)
Init == \E s \in Cats : InitWith(s)

Next ==
  \/ Start /\ nstarts = 0
  \/ Stop
  \/ \E k \in StartIds : StartResume(k)
  \/ \E k \in StartIds, c \in Cats : LoopTest(k, c)
  \/ \E k \in StartIds, c \in Cats : \E o \in Outcomes(LifeBodies(c)) : Respond(k, c, o)
  \/ \E k \in StartIds, c \in Cats : \E b \in LifeBodies(c) : Timeout(k, c, b)
  \/ \E k \in StartIds, c \in Cats : Resume(k, c)
  \/ \E k \in StartIds, c \in Cats : Wake(k, c)
  \/ Tick

Spec == Init /\ [][Next]_vars

(***************************************************************************)
(* The restart specification: start() and stop() are called at any moment, *)
(* every endpoint answers at once, and the run is followed for MaxNow      *)
(* seconds.                                                                *)
(***************************************************************************)
InitRestart == InitWith("none")

NextRestart ==
  \/ Start
  \/ Stop
  \/ \E k \in StartIds : StartResume(k)
  \/ \E k \in StartIds, c \in Cats : LoopTest(k, c)
  \/ \E k \in StartIds, c \in Cats : \E o \in Outcomes(LifeBodies(c)) : Respond(k, c, o)
  \/ \E k \in StartIds, c \in Cats : Resume(k, c)
  \/ \E k \in StartIds, c \in Cats : Wake(k, c)
  \/ Tick /\ now < MaxNow

SpecRestart == InitRestart /\ [][NextRestart]_vars

(***************************************************************************)
(* The snapshot specification: the poller is started once and never        *)
(* stopped, every endpoint answers at once with any of its bodies, and     *)
(* queries are called at any moment.                                       *)
(***************************************************************************)
\* The text of a number in decimal digits, and in two digits at least.
RECURSIVE Decimal(_)
Decimal(n) == IF n < 10 THEN <<Zero + n>> ELSE Append(Decimal(n \div 10), Zero + (n % 10))
TwoDigits(n) == IF n < 10 THEN <<Zero, Zero + n>> ELSE Decimal(n)

\* The time string HH:MM:SS of stop_times.txt for the hour, minute and
\* second in hms.
TimeText(hms) ==
  TwoDigits(hms[1]) \o <<Colon>> \o TwoDigits(hms[2]) \o <<Colon>> \o TwoDigits(hms[3])

\* A row of stop_times.txt; hms is the hour, minute and second of its
\* arrival_time and departure_time strings.
StopTime(trip_id, hms, stop_id, stop_sequence) ==
  [trip_id |-> trip_id, arrival_time |-> TimeText(hms), departure_time |-> TimeText(hms),
   stop_id |-> stop_id, stop_sequence |-> stop_sequence]
Trip(trip_id, route_id) == [key |-> trip_id, val |-> [trip_id |-> trip_id, route_id |-> route_id]]

SnapshotSchedule ==
  [stop_times |-> <<StopTime("T1", <<9, 10, 0>>, "S1", 1),
                    StopTime("T2", <<9, 20, 0>>, "S1", 4),
                    StopTime("T1", <<9, 15, 0>>, "S2", 2)>>,
   trips |-> <<Trip("T1", "BL"), Trip("T2", "RL")>>]

QueryRoutes == {"BL", "RL"}

InitSnapshot == InitWith("none")

NextSnapshot ==
  \/ Start
  \/ \E k \in StartIds : StartResume(k)
  \/ \E k \in StartIds, c \in Cats : LoopTest(k, c)
  \/ \E k \in StartIds, c \in Cats : \E o \in Outcomes(PollBodies(c)) : Respond(k, c, o)
  \/ \E k \in StartIds, c \in Cats : Resume(k, c)
  \/ \E k \in StartIds, c \in Cats : Wake(k, c)
  \/ Tick
  \/ \E r \in QueryRoutes : CallVehiclePositions(r)
  \/ \E r \in {None} \cup {Some(q) : q \in QueryRoutes} : CallTripAlerts(r)
  \/ CallNextArrivals(SnapshotSchedule, "S1", 30)

SpecSnapshot == InitSnapshot /\ [][NextSnapshot]_vars

(***************************************************************************)
(* The server specification: clients call the query tools at any moment;   *)
(* nothing else starts the poller, and nothing stops it.                   *)
(***************************************************************************)
InitServer == InitWith("none")

NextServer ==
  \/ \E i \in CallIds : \E call \in ToolCalls : ToolCall(i, call)
  \/ \E k \in StartIds : StartResume(k)
  \/ \E k \in StartIds, c \in Cats : LoopTest(k, c)
  \/ \E k \in StartIds, c \in Cats : \E o \in Outcomes(LifeBodies(c)) : Respond(k, c, o)
  \/ \E k \in StartIds, c \in Cats : Resume(k, c)
  \/ \E k \in StartIds, c \in Cats : Wake(k, c)
  \/ Tick

SpecServer == InitServer /\ [][NextServer]_vars

(***************************************************************************)
(* The running specification: the poller is started and never stopped.     *)
(* The event loop runs every coroutine that is ready before it waits for   *)
(* a timer, and time passes.  The slow endpoint never answers here: each   *)
(* of its requests ends by the timeout.                                    *)
(***************************************************************************)
TaskStep ==
  \/ \E k \in StartIds : StartResume(k)
  \/ \E k \in StartIds, c \in Cats : LoopTest(k, c)
  \/ \E k \in StartIds, c \in Cats : \E o \in Outcomes(LifeBodies(c)) : Respond(k, c, o) /\ c # slow
  \/ \E k \in StartIds, c \in Cats : \E b \in LifeBodies(c) : Timeout(k, c, b)
  \/ \E k \in StartIds, c \in Cats : Resume(k, c)
  \/ \E k \in StartIds, c \in Cats : Wake(k, c)

NextRunning == Start \/ TaskStep \/ Tick

Fairness == WF_vars(Tick) /\ WF_vars(TaskStep)

SpecRunning == Init /\ [][NextRunning]_vars /\ Fairness

(***************************************************************************)
(* The reconciliation specification: the schedule store and the snapshot   *)
(* hold any of the inputs below, and next_arrivals is called for any stop, *)
(* horizon and current time.  The snapshots are those the trip-updates     *)
(* loop publishes for a feed, and one built by hand the way the test       *)
(* fixtures build theirs.  Times of day are counted in seconds: 09:00:00   *)
(* Eastern standard time of day 0 is the instant 50400.                    *)
(***************************************************************************)
ArrivalSchedules ==
  { \* arrivals on the edges of the window, and a stop-time of an unknown trip
    [stop_times |-> <<StopTime("T1", <<9, 4, 0>>, "S1", 1),
                      StopTime("T2", <<9, 34, 0>>, "S1", 1),
                      StopTime("T3", <<9, 34, 1>>, "S1", 1),
                      StopTime("T4", <<9, 3, 59>>, "S1", 1),
                      StopTime("T5", <<9, 10, 0>>, "S1", 1),
                      StopTime("T1", <<9, 15, 0>>, "S2", 2)>>,
     trips |-> <<Trip("T1", "BL"), Trip("T2", "RL"), Trip("T3", "BL"), Trip("T4", "RL")>>],
    \* a loop route that serves the stop twice
    [stop_times |-> <<StopTime("T1", <<9, 10, 0>>, "S1", 1),
                      StopTime("T2", <<9, 20, 0>>, "S1", 1),
                      StopTime("T1", <<9, 30, 0>>, "S1", 9)>>,
     trips |-> <<Trip("T1", "BL"), Trip("T2", "RL")>>],
    \* two trips due at the same second
    [stop_times |-> <<StopTime("T2", <<9, 10, 0>>, "S1", 1),
                      StopTime("T1", <<9, 10, 0>>, "S1", 1),
                      StopTime("T3", <<8, 30, 0>>, "S1", 1)>>,
     trips |-> <<Trip("T1", "BL"), Trip("T2", "RL"), Trip("T3", "BL")>>] }

Delayed(stop_id, d) == StopTimeUpdate(stop_id, Some(StopTimeEvent(Some(d), None)), None)

ArrivalFeeds ==
  { FeedBody(1, <<TripEntity("e1", "T1", Some("BL"), None, <<Delayed("S1", 180)>>),
                  TripEntity("e2", "T2", Some("RL"), None, <<Delayed("S1", 0 - 60)>>),
                  TripEntity("e3", "T3", Some("BL"), None, <<Delayed("S1", 0)>>)>>),
    FeedBody(2, <<TripEntity("e1", "T1", Some("BL"), None,
                    <<StopTimeUpdate("S1", Some(StopTimeEvent(None, Some(51000))), None)>>),
                  TripEntity("e2", "T2", Some("RL"), None,
                    <<StopTimeUpdate("S1", Some(StopTimeEvent(Some(180), Some(53000))), None)>>)>>),
    FeedBody(3, <<TripEntity("e1", "T1", Some("BL"), None,
                    <<Delayed("S2", 300),
                      StopTimeUpdate("S1", None, Some(StopTimeEvent(Some(30), None))),
                      Delayed("S1", 120)>>),
                  TripEntity("e2", "T2", Some("RL"), None,
                    <<Delayed("S1", 60), Delayed("S1", 600)>>),
                  TripEntity("e3", "T9", Some("BL"), None, <<Delayed("S1", 60)>>)>>) }

\* tests/test_fastmcp_server.py, mock_realtime_data: a TripUpdate built by
\* hand, whose stop-time update dicts hold the keys their author chose.
MockTripUpdate(trip_id, route_id, stus, g) ==
  [key |-> trip_id,
   val |-> [trip_id |-> trip_id, route_id |-> route_id, vehicle_id |-> None,
            timestamp |-> 0, stop_time_updates |-> stus, gen |-> g]]

MockSnapshots ==
  { [EmptyRealtimeData EXCEPT
       !.trip_updates =
         <<MockTripUpdate("T1", Some("BL"),
             <<[stop_id |-> "S1", stop_sequence |-> Some(2), arrival_time |-> Some(51000)]>>, 11)>>] }

PublishedSnapshots ==
  { Publish(EmptyRealtimeData, "trip", TransformTrips(b.ents, b.id, 0).val, 0) : b \in ArrivalFeeds }

ArrivalSnapshots == {EmptyRealtimeData} \cup PublishedSnapshots \cup MockSnapshots

ArrivalStops == {"S1", "S2", "S9"}
ArrivalHorizons == {30, 60}
ArrivalClocks == {DateTime(StartWall, EST_OFFSET), DateTime(StartWall, EDT_OFFSET)}

InitArrivals ==
  /\ slow = "none"
  /\ running = FALSE
  /\ session = 0
  /\ closed = {}
  /\ nstarts = 0
  /\ starts = [k \in StartIds |-> NoStart]
  /\ tasks = [t \in TaskIds |-> NoTask]
  /\ data \in ArrivalSnapshots
  /\ now = 0
  /\ age = [c \in Cats |-> MIN_POLL_INTERVAL]
  /\ lastCycle = NoCycle
  /\ result = NoResult
  /\ initialized = TRUE
  /\ gtfs_data \in {Some(g) : g \in ArrivalSchedules}
  /\ calls = [i \in CallIds |-> NoCall]

\* next_arrivals(gtfs_data, realtime_data, stop_id, horizon_minutes) called
\* at the moment current.
ApplyNextArrivals(stop_id, horizon_minutes, current) ==
  /\ result' = [tool |-> "next_arrivals",
                out |-> NextArrivals(gtfs_data[1], data, stop_id, horizon_minutes, current),
                args |-> [stop_id |-> stop_id, horizon_minutes |-> horizon_minutes,
                          current |-> current]]
  /\ UNCHANGED <<poller, data, now, age, slow, lastCycle, server>>

NextArrivalsCalls ==
  \E stop_id \in ArrivalStops, horizon_minutes \in ArrivalHorizons, current \in ArrivalClocks :
    ApplyNextArrivals(stop_id, horizon_minutes, current)

SpecArrivals == InitArrivals /\ [][NextArrivalsCalls]_vars

(***************************************************************************)
(* The query specification: the schedule store and the snapshot hold any   *)
(* of the inputs below, and any query tool is called once the server is    *)
(* initialized.                                                            *)
(***************************************************************************)
RouteEntry(route_id, short_name, long_name, color) ==
  [key |-> route_id,
   val |-> [route_id |-> route_id, route_short_name |-> short_name,
            route_long_name |-> long_name, route_color |-> color]]

StopEntry(stop_id, stop_name, stop_lat, stop_lon, stop_code, stop_desc) ==
  [key |-> stop_id,
   val |-> [stop_id |-> stop_id, stop_name |-> stop_name, stop_lat |-> stop_lat,
            stop_lon |-> stop_lon, stop_code |-> stop_code, stop_desc |-> stop_desc]]

\* Routes "N" (Night, no colour) and "BL" (Blue, colour 0F); stops "HUB"
\* (Hub, code "8") and "CVS" (Ath, description "at cvs").
QuerySchedule ==
  [routes |-> <<RouteEntry(<<78>>, <<78>>, <<78, 105, 103, 104, 116>>, None),
                RouteEntry(<<66, 76>>, <<66, 76>>, <<66, 108, 117, 101>>, Some(<<48, 70>>))>>,
   stops |-> <<StopEntry(<<72, 85, 66>>, <<72, 117, 98>>, 40, 77, Some(<<56>>), None),
               StopEntry(<<67, 86, 83>>, <<65, 116, 104>>, 41, 78, None,
                    Some(<<97, 116, 32, 99, 118, 115>>))>>,
   trips |-> SnapshotSchedule.trips,
   stop_times |-> SnapshotSchedule.stop_times]

\* gtfs_data: None as the tests of the tools patch it, GTFSData() as a
\* failed load leaves it, and a loaded schedule.
QueryStores == {None, Some(EmptyGTFSData), Some(QuerySchedule)}

\* One vehicle on BL, one trip update and one alert for BL, as the fixture
\* of the tool tests builds them.
MockRealtimeData ==
  [EmptyRealtimeData EXCEPT
     !.vehicle_positions =
       <<[key |-> "BUS_001",
          val |-> [vehicle_id |-> "BUS_001", trip_id |-> Some("T1"), route_id |-> Some("BL"),
                   latitude |-> 40, longitude |-> 77, bearing |-> 90, speed |-> 10,
                   timestamp |-> 0, occupancy_status |-> None, gen |-> 11]]>>,
     !.trip_updates =
       <<MockTripUpdate("T1", Some("BL"),
           <<[stop_id |-> "S1", stop_sequence |-> Some(2), arrival_delay |-> 180]>>, 11)>>,
     !.alerts =
       <<[alert_id |-> "ALERT_001", header |-> "Blue Loop Detour",
          description |-> "Blue Loop detoured", severity |-> "WARNING",
          active_periods |-> <<>>, informed_entities |-> <<[route_id |-> "BL"]>>,
          gen |-> 11]>>]

\* A snapshot built as the fixtures build theirs: vehicles on two routes,
\* one without a route and one with the empty route id of a trip descriptor
\* that names no route; alerts for one route, for two routes, for the same
\* route twice, for a stop only and for nothing.
MockVehicle(vehicle_id, route_id, lat) ==
  [key |-> vehicle_id,
   val |-> [vehicle_id |-> vehicle_id, trip_id |-> None, route_id |-> route_id,
            latitude |-> lat, longitude |-> 77, bearing |-> None, speed |-> None,
            timestamp |-> 0, occupancy_status |-> None, gen |-> 12]]

MockAlert(alert_id, header, informed_entities) ==
  [alert_id |-> alert_id, header |-> header, description |-> "", severity |-> "INFO",
   active_periods |-> <<>>, informed_entities |-> informed_entities, gen |-> 12]

MixedRealtimeData ==
  [EmptyRealtimeData EXCEPT
     !.vehicle_positions =
       <<MockVehicle("BUS_001", Some("BL"), 40), MockVehicle("BUS_002", Some("RL"), 41),
         MockVehicle("BUS_003", None, 42), MockVehicle("BUS_004", Some("BL"), 43),
         MockVehicle("BUS_005", Some(""), 44)>>,
     !.alerts =
       <<MockAlert("A1", "Stop closed", <<[stop_id |-> "S1"]>>),
         MockAlert("A2", "Red detour", <<[route_id |-> "RL"]>>),
         MockAlert("A3", "Storm", <<>>),
         MockAlert("A4", "Game day", <<[stop_id |-> "S2"], [route_id |-> "RL"],
                                       [route_id |-> "BL", trip_id |-> "T1"]>>),
         MockAlert("A5", "Blue detour", <<[route_id |-> "BL"], [route_id |-> "BL"]>>)>>]

QuerySnapshots ==
  {EmptyRealtimeData, MockRealtimeData, MixedRealtimeData}
    \cup UNION { {Publish(EmptyRealtimeData, c, Transform(c, b.ents, b.id, 0).val, 0) :
                     b \in {f \in PollBodies(c) : f.id = 1}} : c \in Cats }

\* "hub", "ZZ" and the empty query
SearchQueries == {<<104, 117, 98>>, <<90, 90>>, <<>>}
QueryStops == {"S1", "S9"}
RouteArguments == {"BL", "ZZ", ""}

InitQueries ==
  /\ slow = "none"
  /\ running = FALSE
  /\ session = 0
  /\ closed = {}
  /\ nstarts = 0
  /\ starts = [k \in StartIds |-> NoStart]
  /\ tasks = [t \in TaskIds |-> NoTask]
  /\ data \in QuerySnapshots
  /\ now = 0
  /\ age = [c \in Cats |-> MIN_POLL_INTERVAL]
  /\ lastCycle = NoCycle
  /\ result = NoResult
  /\ initialized = TRUE
  /\ gtfs_data \in QueryStores
  /\ calls = [i \in CallIds |-> NoCall]

\* A variant of CallTool in which trip_alerts hands over the alerts by
\* taking them out of the snapshot.
CallToolConsumes(call) ==
  /\ initialized
  /\ result' = [tool |-> call.tool,
                out |-> ToolBody(call, gtfs_data, data, WallClock),
                args |-> call,
                raised |-> ToolRaises(call, gtfs_data)]
  /\ data' = IF call.tool = "trip_alerts_tool" THEN [data EXCEPT !.alerts = <<>>] ELSE data
  /\ UNCHANGED <<poller, now, age, slow, lastCycle, server>>

\* A query tool is called when initialized is true: ensure_initialized
\* returns at once, and the tool body runs.  raised records that the call
\* ended by an exception.
CallTool(call) ==
  /\ initialized
  /\ result' = [tool |-> call.tool,
                out |-> ToolBody(call, gtfs_data, data, WallClock),
                args |-> call,
                raised |-> ToolRaises(call, gtfs_data)]
  /\ UNCHANGED <<poller, data, now, age, slow, lastCycle, server>>

NextQueries ==
  \/ CallTool([tool |-> "list_routes_tool", arg |-> None])
  \/ \E query \in SearchQueries : CallTool([tool |-> "search_stops_tool", arg |-> query])
  \/ \E stop_id \in QueryStops : CallTool([tool |-> "next_arrivals_tool", arg |-> stop_id])
  \/ \E route_id \in RouteArguments :
       CallTool([tool |-> "vehicle_positions_tool", arg |-> route_id])
  \/ \E route_id \in {None} \cup {Some(r) : r \in RouteArguments} :
       CallTool([tool |-> "trip_alerts_tool", arg |-> route_id])

SpecQueries == InitQueries /\ [][NextQueries]_vars

(***************************************************************************)
(* The initialization specification: clients call initialize_data, a query *)
(* tool or health_check at any moment.  load_feed is the collaborator of   *)
(* ensure_initialized: it returns a schedule, raises, or is still running  *)
(* when wait_for gives up; and start() may raise when it creates the       *)
(* session.  Every endpoint answers at once with its first feed.           *)
(***************************************************************************)
LoadOutcomes == {"loaded", "raised", "timeout"}

\* A variant of CaughtLoadFailures without the handler "except Exception".
CaughtTimeoutOnly == {"timeout"}

\* "except asyncio.TimeoutError" and "except Exception" around the load.
CaughtLoadFailures == {"timeout", "raised"}

\* ensure_initialized from the end of the load on, for a load that left
\* dataset: the poller is started, and unless start() suspends the call in
\* its first stagger sleep, initialized is set and the tool body runs.
\* A start() that raises has set _running and has no session and no task.
AfterLoad(i, call, dataset, start_raises) ==
  /\ gtfs_data' = Some(dataset)
  /\ IF running
       THEN /\ FinishCall(i, call, Some(dataset))
            /\ UNCHANGED <<poller, data>>
       ELSE IF start_raises
         THEN /\ running' = TRUE
              /\ data' = EmptyRealtimeData
              /\ initialized' = TRUE
              /\ calls' = [calls EXCEPT ![i] = [pc |-> "done", tool |-> call.tool]]
              /\ result' = Answer(call.tool,
                                  ToolBody(call, Some(dataset), EmptyRealtimeData, WallClock))
              /\ UNCHANGED <<session, closed, nstarts, starts, tasks>>
         ELSE /\ BeginStart(i)
              /\ calls' = [calls EXCEPT ![i] = [pc |-> "starting", tool |-> call.tool,
                                                arg |-> call.arg]]
              /\ UNCHANGED <<initialized, result, data>>

\* The try block around the load has ended with outcome.
EndOfLoad(i, call, outcome, start_raises) ==
  IF outcome = "loaded" THEN AfterLoad(i, call, QuerySchedule, start_raises)
  ELSE IF outcome \in CaughtLoadFailures
    THEN AfterLoad(i, call, EmptyGTFSData, start_raises)
    ELSE /\ calls' = [calls EXCEPT ![i] = [pc |-> "raised", tool |-> call.tool]]
         /\ UNCHANGED <<poller, data, result, initialized, gtfs_data>>

\* A client calls a tool that awaits ensure_initialized.  With initialized
\* true the tool body runs at once.  Otherwise load_feed is called: it
\* raises before it awaits anything, or the call is suspended in it.
BeginCall(i, call, suspended, start_raises) ==
  /\ calls[i].pc = "idle"
  /\ \A j \in CallIds : j < i => calls[j].pc # "idle"
  /\ IF initialized
       THEN /\ calls' = [calls EXCEPT ![i] = [pc |-> "done", tool |-> call.tool]]
            /\ result' = Answer(call.tool, ToolBody(call, gtfs_data, data, WallClock))
            /\ UNCHANGED <<poller, data, initialized, gtfs_data>>
       ELSE IF suspended
         THEN /\ calls' = [calls EXCEPT ![i] = [pc |-> "loading", tool |-> call.tool,
                                                arg |-> call.arg]]
              /\ UNCHANGED <<poller, data, result, initialized, gtfs_data>>
         ELSE EndOfLoad(i, call, "raised", start_raises)
  /\ UNCHANGED <<now, age, slow, lastCycle>>

\* asyncio.wait_for(load_feed(...), timeout=15.0) ends.
LoadEnds(i, outcome, start_raises) ==
  /\ calls[i].pc = "loading"
  /\ EndOfLoad(i, calls[i], outcome, start_raises)
  /\ UNCHANGED <<now, age, slow, lastCycle>>

\* A variant of HealthCheck that awaits ensure_initialized first, with the
\* poller running and the load failing.
HealthCheckEnsures ==
  /\ result' = [tool |-> "health_check", out |-> [status |-> "healthy"]]
  /\ initialized' = TRUE
  /\ gtfs_data' = Some(EmptyGTFSData)
  /\ UNCHANGED <<poller, data, now, age, slow, lastCycle, calls>>

\* health_check(); the environment decides _is_cloud_environment().
HealthCheck ==
  /\ \E is_cloud \in BOOLEAN :
       result' =
         [tool |-> "health_check",
          out |-> IF is_cloud
                    THEN [status |-> "healthy", environment |-> "cloud"]
                    ELSE [status |-> "healthy",
                          initialized |-> initialized,
                          routes_loaded |-> IF gtfs_data # None THEN Len(gtfs_data[1].routes) ELSE 0,
                          stops_loaded |-> IF gtfs_data # None THEN Len(gtfs_data[1].stops) ELSE 0,
                          last_vehicle_update |-> data.last_vehicle_update,
                          last_trip_update |-> data.last_trip_update,
                          environment |-> "local"]]
  /\ UNCHANGED <<poller, data, now, age, slow, lastCycle, server>>

InitializingCalls ==
  { [tool |-> "initialize_data", arg |-> None],
    [tool |-> "next_arrivals_tool", arg |-> "S1"] }

InitInitialization == InitWith("none")

NextInitialization ==
  \/ \E i \in CallIds : \E call \in InitializingCalls : \E suspended, start_raises \in BOOLEAN :
       BeginCall(i, call, suspended, start_raises)
  \/ \E i \in CallIds : \E outcome \in LoadOutcomes : \E start_raises \in BOOLEAN :
       LoadEnds(i, outcome, start_raises)
  \/ HealthCheck
  \/ \E k \in StartIds : StartResume(k)
  \/ \E k \in StartIds, c \in Cats : LoopTest(k, c)
  \/ \E k \in StartIds, c \in Cats : \E b \in PollBodies(c) :
       b.id = 1 /\ Respond(k, c, Outcome("ok", b))
  \/ \E k \in StartIds, c \in Cats : Resume(k, c)
  \/ \E k \in StartIds, c \in Cats : Wake(k, c)
  \/ Tick

SpecInitialization == InitInitialization /\ [][NextInitialization]_vars

(***************************************************************************)
(* The static specification: the schedule store holds any of the route and *)
(* stop tables below, in any insertion order, and list_routes and          *)
(* search_stops are called on it.                                          *)
(***************************************************************************)
\* Routes "N" (Night, no colour column), "BL" (Blue, colour 0F) and "NV"
\* (short name N as well, empty colour).
StaticRoutes ==
  { RouteEntry(<<78>>, <<78>>, <<78, 105, 103, 104, 116>>, None),
    RouteEntry(<<66, 76>>, <<66, 76>>, <<66, 108, 117, 101>>, Some(<<48, 70>>)),
    RouteEntry(<<78, 86>>, <<78>>, <<86, 105, 97>>, Some(<<>>)) }

\* Stops "HUB" (Hub, code "8"), "CVS" (Ath, description "at cvs") and "X1"
\* (Pub, empty code, description "HUB stop").
StaticStops ==
  { StopEntry(<<72, 85, 66>>, <<72, 117, 98>>, 40, 77, Some(<<56>>), None),
    StopEntry(<<67, 86, 83>>, <<65, 116, 104>>, 41, 78, None,
              Some(<<97, 116, 32, 99, 118, 115>>)),
    StopEntry(<<88, 49>>, <<80, 117, 98>>, 42, 79, Some(<<>>),
              Some(<<72, 85, 66, 32, 115, 116, 111, 112>>)) }

\* The tables a dict can hold with entries of S: every choice of entries in
\* every insertion order.
Orderings(S) ==
  {<<>>} \cup {<<a>> : a \in S}
         \cup {ab \in S \X S : ab[1] # ab[2]}
         \cup {abc \in S \X S \X S : abc[1] # abc[2] /\ abc[1] # abc[3] /\ abc[2] # abc[3]}

StaticStores ==
  { [routes |-> routes, stops |-> stops, trips |-> <<>>, stop_times |-> <<>>] :
      routes \in Orderings(StaticRoutes), stops \in Orderings(StaticStops) }

\* "hub", "CVS", "8", "ZZ" and "u"
StaticQueries == {<<104, 117, 98>>, <<67, 86, 83>>, <<56>>, <<90, 90>>, <<117>>}

InitStatic ==
  /\ slow = "none"
  /\ running = FALSE
  /\ session = 0
  /\ closed = {}
  /\ nstarts = 0
  /\ starts = [k \in StartIds |-> NoStart]
  /\ tasks = [t \in TaskIds |-> NoTask]
  /\ data = EmptyRealtimeData
  /\ now = 0
  /\ age = [c \in Cats |-> MIN_POLL_INTERVAL]
  /\ lastCycle = NoCycle
  /\ result = NoResult
  /\ initialized = TRUE
  /\ gtfs_data \in {Some(g) : g \in StaticStores}
  /\ calls = [i \in CallIds |-> NoCall]

\* list_routes(gtfs_data)
ApplyListRoutes ==
  /\ result' = [tool |-> "list_routes", out |-> ListRoutes(gtfs_data[1]), args |-> <<>>]
  /\ UNCHANGED <<poller, data, now, age, slow, lastCycle, server>>

\* search_stops(gtfs_data, query)
ApplySearchStops(query) ==
  /\ result' = [tool |-> "search_stops", out |-> SearchStops(gtfs_data[1], query),
                args |-> [query |-> query]]
  /\ UNCHANGED <<poller, data, now, age, slow, lastCycle, server>>

NextStatic ==
  \/ ApplyListRoutes
  \/ \E query \in StaticQueries : ApplySearchStops(query)

SpecStatic == InitStatic /\ [][NextStatic]_vars

(***************************************************************************)
(* The time specification: the schedule holds one arrival of trip T1 at    *)
(* stop S1 with any of the time strings below; parse_gtfs_time is applied  *)
(* to the string, and next_arrivals is called with a horizon of half an    *)
(* hour or of several days.                                                *)
(***************************************************************************)
TimeHours == {0, 9, 10, 23, 24, 25, 33, 47, 48, 57, 72, 100}
TimeMinutesSeconds == {<<0, 0>>, <<15, 0>>, <<59, 59>>}
TimeStrings == {TimeText(<<h, ms[1], ms[2]>>) : h \in TimeHours, ms \in TimeMinutesSeconds}
TimeHorizons == {30, 6000}

InitTimes ==
  /\ slow = "none"
  /\ running = FALSE
  /\ session = 0
  /\ closed = {}
  /\ nstarts = 0
  /\ starts = [k \in StartIds |-> NoStart]
  /\ tasks = [t \in TaskIds |-> NoTask]
  /\ data = EmptyRealtimeData
  /\ now = 0
  /\ age = [c \in Cats |-> MIN_POLL_INTERVAL]
  /\ lastCycle = NoCycle
  /\ result = NoResult
  /\ initialized = TRUE
  /\ \E time_str \in TimeStrings :
       gtfs_data = Some([stop_times |-> <<[trip_id |-> "T1", arrival_time |-> time_str,
                                           departure_time |-> time_str, stop_id |-> "S1",
                                           stop_sequence |-> 1]>>,
                         trips |-> <<Trip("T1", "BL")>>])
  /\ calls = [i \in CallIds |-> NoCall]

\* parse_gtfs_time(stop_time.arrival_time)
ApplyParseGtfsTime ==
  /\ result' = [tool |-> "parse_gtfs_time",
                out |-> ParseGtfsTime(gtfs_data[1].stop_times[1].arrival_time),
                args |-> [time_str |-> gtfs_data[1].stop_times[1].arrival_time]]
  /\ UNCHANGED <<poller, data, now, age, slow, lastCycle, server>>

NextTimes ==
  \/ ApplyParseGtfsTime
  \/ \E horizon_minutes \in TimeHorizons, current \in ArrivalClocks :
       ApplyNextArrivals("S1", horizon_minutes, current)

SpecTimes == InitTimes /\ [][NextTimes]_vars

(***************************************************************************)
(* The alert specification: the first request of the alerts loop has been  *)
(* answered with a feed of one alert whose header and description hold any *)
(* of the translation lists below, and the loop runs its cycle.            *)
(***************************************************************************)
TranslationChoices ==
  { Translation("en", "Detour"), Translation("en", "Closed"),
    Translation("es", "Desvio"), Translation("fr", "") }
TranslationLists ==
  {<<>>} \cup {<<a>> : a \in TranslationChoices}
         \cup {<<a, b>> : a \in TranslationChoices, b \in TranslationChoices}
TranslatedFields == {None} \cup {Some(trs) : trs \in TranslationLists}
TranslatedFeeds ==
  { FeedBody(1, <<AlertEntity("a1", header, description, Some(3), <<>>, <<>>)>>) :
      header \in TranslatedFields, description \in TranslatedFields }

\* Ten seconds after start(): the vehicle and trip loops sleep after a failed
\* first request each, and the alerts loop has the answer to its first.
InitAlerts ==
  /\ slow = "none"
  /\ running = TRUE
  /\ session = 1
  /\ closed = {}
  /\ nstarts = 1
  /\ starts = [k \in StartIds |->
                 IF k = 1 THEN [pc |-> "done", timer |-> 0, caller |-> 0] ELSE NoStart]
  /\ \E body \in TranslatedFeeds :
       tasks = [t \in TaskIds |->
                  CASE t = <<1, "vehicle">> -> [NoTask EXCEPT !.pc = "sleeping", !.timer = 5]
                    [] t = <<1, "trip">> -> [NoTask EXCEPT !.pc = "sleeping", !.timer = 10]
                    [] t = <<1, "alert">> ->
                         [NoTask EXCEPT !.pc = "fetched", !.sess = 1, !.got = Outcome("ok", body)]
                    [] OTHER -> NoTask]
  /\ data = EmptyRealtimeData
  /\ now = 2 * STAGGER_SLEEP
  /\ age = [c \in Cats |-> CASE c = "vehicle" -> 10 [] c = "trip" -> 5 [] c = "alert" -> 0]
  /\ lastCycle = [cat |-> "trip", how |-> "error", published |-> FALSE]
  /\ result = NoResult
  /\ initialized = FALSE
  /\ gtfs_data = None
  /\ calls = [i \in CallIds |-> NoCall]

NextAlerts == Resume(1, "alert")

SpecAlerts == InitAlerts /\ [][NextAlerts]_vars

(***************************************************************************)
(* Properties.                                                             *)
(***************************************************************************)
\* In this step the loop of start k for category c ends a cycle.
CycleEnds(k, c) == tasks[<<k, c>>].pc = "fetched" /\ tasks'[<<k, c>>].pc # "fetched"

\* The ways a cycle fails, read off the outcome of its request.
FetchReturnedNothing(got) == got.how # "ok" \/ got.body.kind = "empty"
DecodeFails(got) == got.how = "ok" /\ got.body.kind = "garbage"
TimestampTooLarge(t) == t # None /\ t[1] > MAX_TIMESTAMP
EntityFails(c, e) ==
  CASE c = "vehicle" ->
         e.vehicle # None /\ e.vehicle[1].position # None
           /\ e.vehicle[1].timestamp > MAX_TIMESTAMP
    [] c = "trip" -> e.trip_update # None /\ TimestampTooLarge(e.trip_update[1].timestamp)
    [] c = "alert" ->
         e.alert # None
           /\ \/ e.alert[1].informed_entity # <<>>
              \/ \E j \in 1..Len(e.alert[1].active_period) :
                   \/ TimestampTooLarge(e.alert[1].active_period[j].start)
                   \/ TimestampTooLarge(e.alert[1].active_period[j].end)
TransformFails(c, got) ==
  got.how = "ok" /\ got.body.kind = "feed"
    /\ \E i \in 1..Len(got.body.ents) : EntityFails(c, got.body.ents[i])
CycleFails(c, got) == FetchReturnedNothing(got) \/ DecodeFails(got) \/ TransformFails(c, got)

\* The generation tags of the entries of category c's container in d.
GensOf(d, c) ==
  LET container == d[ContainerOf(c)]
  IN IF c = "alert" THEN {container[i].gen : i \in 1..Len(container)}
     ELSE {container[i].val.gen : i \in 1..Len(container)}

\* C1: a failed cycle (the fetch returns nothing, the decoding raises or the
\* transform raises) leaves its category's container and timestamp as they
\* were; a cycle that succeeds leaves a container built from its response
\* alone and sets the timestamp to the time of the cycle.
C1_FailedCycleKeepsSnapshot ==
  [][\A k \in StartIds, c \in Cats :
       CycleEnds(k, c) =>
         IF CycleFails(c, tasks[<<k, c>>].got)
           THEN /\ data'[ContainerOf(c)] = data[ContainerOf(c)]
                /\ data'[StampOf(c)] = data[StampOf(c)]
           ELSE /\ GensOf(data', c) = {tasks[<<k, c>>].got.body.id}
                /\ data'[StampOf(c)] = Some(now)]_vars

\* A decodable vehicle feed failed in the transform after an earlier cycle
\* had published, and the published vehicles and timestamp are still there.
C1_Witness ==
  /\ lastCycle = [cat |-> "vehicle", how |-> "ok", published |-> FALSE]
  /\ data.vehicle_positions # <<>>
  /\ data.last_vehicle_update # None

\* C2: the entries of one query result all come from one poll generation.
C2_OneGenerationPerCall ==
  \A i, j \in 1..Len(result.out) :
    (result.out[i].gen # None /\ result.out[j].gen # None)
      => result.out[i].gen = result.out[j].gen

\* A vehicle query answered with the two vehicles of one generation, and the
\* vehicle map has been replaced by another generation since.
C2_Witness ==
  /\ result.tool = "vehicle_positions"
  /\ Len(result.out) = 2
  /\ result.out[1].gen = Some(2)
  /\ GensOf(data, "vehicle") = {1}

\* C3: a request to an endpoint is issued only when the last request to that
\* endpoint is at least MIN_POLL_INTERVAL seconds old.
C3_MinSpacing ==
  [][\A k \in StartIds, c \in Cats :
       (tasks[<<k, c>>].pc = "ready" /\ tasks'[<<k, c>>].pc = "fetching")
         => age[c] >= MIN_POLL_INTERVAL]_vars

\* C4: a loop that existed when stop() was called issues no further fetch.
C4_StoppedLoopFetchesNoMore ==
  [][\A t \in TaskIds :
       (tasks[t].stopped /\ tasks[t].pc = "ready") => tasks'[t].pc # "fetching"]_vars

\* C5: no category has two loops inside the while body at once.
InLoop(t) == tasks[t].pc \in {"fetching", "fetched", "sleeping"}
C5_OneLoopPerCategory ==
  \A c \in Cats : Cardinality({k \in StartIds : InLoop(<<k, c>>)}) <= 1

\* C6: while the poller runs, every loop that exists begins another cycle
\* later on, whatever the outcome of its cycles.
C6_LoopsKeepCycling ==
  \A c \in Cats :
    [](tasks[<<1, c>>].pc # "none" => <>(tasks[<<1, c>>].pc = "fetching"))

\* The vehicle loop is in a later cycle's fetch and has never published:
\* each of its earlier cycles failed.
C6_Witness ==
  /\ tasks[<<1, "vehicle">>].pc = "fetching"
  /\ now >= MIN_POLL_INTERVAL
  /\ data.last_vehicle_update = None

\* C7: a query tool call creates no poll task, starts no poller and returns
\* without being suspended.
C7_QueryNeverStartsPolling ==
  [][\A i \in CallIds :
       (calls[i].pc = "idle" /\ calls'[i].pc # "idle")
         => (tasks' = tasks /\ nstarts' = nstarts /\ calls'[i].pc = "done")]_vars

\* C8: the cycle of a request that ran into its timeout ends with the whole
\* snapshot as it was.
C8_TimedOutFetchIsAbandoned ==
  [][\A k \in StartIds, c \in Cats :
       (CycleEnds(k, c) /\ tasks[<<k, c>>].got.how = "timeout") => data' = data]_vars

\* A cycle whose request timed out has ended, after that category published.
C8_Witness ==
  /\ lastCycle.how = "timeout"
  /\ ~lastCycle.published
  /\ data[StampOf(lastCycle.cat)] # None

\* C9: a container or timestamp of category c changes only in a step that
\* ends a successful cycle of c, and with the timestamp the container is
\* the one built from that cycle's response.
C9_CycleTouchesOwnCategoryOnly ==
  [][\A c \in Cats :
       (data'[ContainerOf(c)] # data[ContainerOf(c)] \/ data'[StampOf(c)] # data[StampOf(c)])
         => \E k \in StartIds :
              /\ CycleEnds(k, c)
              /\ ~CycleFails(c, tasks[<<k, c>>].got)
              /\ GensOf(data', c) = {tasks[<<k, c>>].got.body.id}]_vars

\* A trip-updates cycle has just published while the vehicle map has its own
\* older timestamp and the alerts have never been published.
C9_Witness ==
  /\ lastCycle.cat = "trip" /\ lastCycle.published
  /\ data.last_vehicle_update # None
  /\ data.last_vehicle_update # data.last_trip_update
  /\ data.last_alert_update = None

\* The entities of a feed that carry a vehicle with a position.
Positioned(ents) ==
  {i \in 1..Len(ents) : ents[i].vehicle # None /\ ents[i].vehicle[1].position # None}

\* C10 as stated: after a successful vehicle cycle the keys of the vehicle
\* map are the entity ids of the feed entities that carry a vehicle with a
\* position.
C10_KeysAreEntityIds ==
  [][\A k \in StartIds :
       (CycleEnds(k, "vehicle") /\ ~CycleFails("vehicle", tasks[<<k, "vehicle">>].got))
         => LET ents == tasks[<<k, "vehicle">>].got.body.ents
            IN DictKeys(data'.vehicle_positions) = {ents[i].id : i \in Positioned(ents)}]_vars

\* C10 amended: the keys are the vehicle ids of those entities, a vehicle id
\* being the id of the vehicle descriptor, or the entity id when the
\* descriptor has none.
C10_KeysAreVehicleIds ==
  [][\A k \in StartIds :
       (CycleEnds(k, "vehicle") /\ ~CycleFails("vehicle", tasks[<<k, "vehicle">>].got))
         => LET ents == tasks[<<k, "vehicle">>].got.body.ents
            IN DictKeys(data'.vehicle_positions) =
                 {IF ents[i].vehicle[1].vid # "" THEN ents[i].vehicle[1].vid ELSE ents[i].id :
                    i \in Positioned(ents)}]_vars

\* A vehicle cycle published a feed of three vehicles: one keyed by its
\* descriptor id, one by its entity id, and one without a position left out.
C10_Witness ==
  /\ lastCycle.cat = "vehicle" /\ lastCycle.published
  /\ DictKeys(data.vehicle_positions) = {"v1", "e2"}

(***************************************************************************)
(* Properties of next_arrivals, read off the call recorded in result and   *)
(* the schedule and snapshot it was given.                                 *)
(***************************************************************************)
Asked == result.tool = "next_arrivals" /\ "args" \in DOMAIN result

\* The window of the call, as instants.
WindowStart == Instant(result.args.current)
WindowEnd == WindowStart + 60 * result.args.horizon_minutes

\* The scheduled instant of the i-th static stop-time on the day of the call.
ScheduledInstant(i) ==
  Instant(ScheduledDateTime(result.args.current, gtfs_data[1].stop_times[i].arrival_time))

\* The static stop-times that are at the queried stop, of a known trip, and
\* scheduled inside the window.
Eligible ==
  {i \in 1..Len(gtfs_data[1].stop_times) :
     /\ gtfs_data[1].stop_times[i].stop_id = result.args.stop_id
     /\ \E k \in 1..Len(gtfs_data[1].trips) :
          gtfs_data[1].trips[k].key = gtfs_data[1].stop_times[i].trip_id
     /\ WindowStart <= ScheduledInstant(i)
     /\ ScheduledInstant(i) <= WindowEnd}
EligibleTrips == {gtfs_data[1].stop_times[i].trip_id : i \in Eligible}

\* The stop-time that stands for trip t: the last eligible one in file order.
Governing(t) ==
  CHOOSE i \in Eligible :
    /\ gtfs_data[1].stop_times[i].trip_id = t
    /\ \A h \in Eligible : gtfs_data[1].stop_times[h].trip_id = t => h <= i

\* The stop-time updates of trip t in the snapshot, and the positions of
\* those with the queried stop id.
UpdatesOf(t) ==
  LET at == {k \in 1..Len(data.trip_updates) : data.trip_updates[k].key = t}
  IN IF at = {} THEN <<>> ELSE data.trip_updates[CHOOSE k \in at : TRUE].val.stop_time_updates
MatchesOf(t) == {j \in 1..Len(UpdatesOf(t)) : UpdatesOf(t)[j].stop_id = result.args.stop_id}
FirstOf(t) == UpdatesOf(t)[CHOOSE j \in MatchesOf(t) : \A h \in MatchesOf(t) : j <= h]

\* The predictions returned for trip t.
PredictionsOf(t) == {i \in 1..Len(result.out) : result.out[i].trip_id = t}

\* C11: a scheduled arrival inside the window whose trip has a stop-time
\* update for the stop with arrival_delay = d is predicted at the scheduled
\* instant plus d seconds, with delay_sec = d, for d positive, zero or
\* negative.
C11_DelayIsAdded ==
  Asked =>
    \A t \in EligibleTrips :
      (MatchesOf(t) # {} /\ "arrival_delay" \in DOMAIN FirstOf(t))
        => /\ PredictionsOf(t) # {}
           /\ \A i \in PredictionsOf(t) :
                /\ result.out[i].delay_sec = FirstOf(t).arrival_delay
                /\ Instant(result.out[i].arrival_time_iso) =
                     ScheduledInstant(Governing(t)) + FirstOf(t).arrival_delay

\* One answer predicts a trip 180 s late, one 60 s early and one on time,
\* each from a stop-time update with that delay.
C11_Witness ==
  /\ Asked
  /\ \E t \in EligibleTrips :
       MatchesOf(t) # {} /\ "arrival_delay" \in DOMAIN FirstOf(t) /\ FirstOf(t).arrival_delay = 180
  /\ \E i, j, k \in 1..Len(result.out) :
       /\ result.out[i].delay_sec = 180
       /\ result.out[j].delay_sec = 0 - 60
       /\ result.out[k].delay_sec = 0 /\ result.out[k].gen # None

\* The stop-time updates the feed with response id g carries for trip t on
\* the wire, and the first of them with the queried stop id.
WireUpdatesOf(g, t) ==
  LET feeds == {b \in ArrivalFeeds : b.id = g}
      ents == IF feeds = {} THEN <<>> ELSE (CHOOSE b \in feeds : TRUE).ents
      at == {k \in 1..Len(ents) :
               ents[k].trip_update # None /\ ents[k].trip_update[1].trip.trip_id = t}
  IN IF at = {} THEN <<>>
     ELSE ents[CHOOSE k \in at : \A h \in at : h <= k].trip_update[1].stop_time_update
WireMatchesOf(g, t) ==
  {j \in 1..Len(WireUpdatesOf(g, t)) : WireUpdatesOf(g, t)[j].stop_id = result.args.stop_id}
WireFirstOf(g, t) ==
  WireUpdatesOf(g, t)[CHOOSE j \in WireMatchesOf(g, t) : \A h \in WireMatchesOf(g, t) : j <= h]

\* C12: when the feed's stop-time update for the stop has an arrival with an
\* absolute time and no delay, the prediction computed from the published
\* snapshot is at that absolute time, and its delay_sec is that time minus
\* the scheduled instant.
C12_AbsoluteTimeThroughPipeline ==
  Asked =>
    \A i \in 1..Len(result.out) :
      LET t == result.out[i].trip_id
          g == IF result.out[i].gen = None THEN 0 ELSE result.out[i].gen[1]
      IN (/\ WireMatchesOf(g, t) # {}
          /\ WireFirstOf(g, t).arrival # None
          /\ WireFirstOf(g, t).arrival[1].delay = None
          /\ WireFirstOf(g, t).arrival[1].time # None)
           => /\ Instant(result.out[i].arrival_time_iso) = WireFirstOf(g, t).arrival[1].time[1]
              /\ result.out[i].delay_sec =
                   WireFirstOf(g, t).arrival[1].time[1] - ScheduledInstant(Governing(t))

\* The matched stop-time update of trip t carries an absolute arrival time.
HasAbsoluteTime(t) ==
  /\ MatchesOf(t) # {}
  /\ "arrival_time" \in DOMAIN FirstOf(t)
  /\ FirstOf(t).arrival_time # None
  /\ FirstOf(t).arrival_time[1] # 0

\* C13: when the matched stop-time update carries both an absolute arrival
\* time and an arrival delay, the prediction is at the absolute time and
\* delay_sec is that time minus the scheduled instant.
C13_AbsoluteTimeWins ==
  Asked =>
    \A t \in EligibleTrips :
      (HasAbsoluteTime(t) /\ "arrival_delay" \in DOMAIN FirstOf(t))
        => \A i \in PredictionsOf(t) :
             /\ Instant(result.out[i].arrival_time_iso) = FirstOf(t).arrival_time[1]
             /\ result.out[i].delay_sec =
                  FirstOf(t).arrival_time[1] - ScheduledInstant(Governing(t))

\* The place of trip t in the list before the sort: the dict scheduled keeps
\* its keys in the order of their first insertion.
FirstEligible(t) ==
  CHOOSE i \in Eligible :
    /\ gtfs_data[1].stop_times[i].trip_id = t
    /\ \A h \in Eligible : gtfs_data[1].stop_times[h].trip_id = t => i <= h

C15_OnePredictionPerTrip ==
  Asked =>
    \A i, j \in 1..Len(result.out) :
      result.out[i].trip_id = result.out[j].trip_id => i = j

\* A trip with two stop-times at the queried stop inside the window has
\* exactly one prediction.
C15_Witness ==
  /\ Asked
  /\ \E t \in EligibleTrips :
       /\ Cardinality({i \in Eligible : gtfs_data[1].stop_times[i].trip_id = t}) = 2
       /\ Cardinality(PredictionsOf(t)) = 1

\* The static stop-times at the queried stop whose trip is known.
Candidates ==
  {i \in 1..Len(gtfs_data[1].stop_times) :
     /\ gtfs_data[1].stop_times[i].stop_id = result.args.stop_id
     /\ \E k \in 1..Len(gtfs_data[1].trips) :
          gtfs_data[1].trips[k].key = gtfs_data[1].stop_times[i].trip_id}

C17_OnlyScheduledTrips ==
  Asked =>
    \A i \in 1..Len(result.out) :
      \E c \in Candidates : gtfs_data[1].stop_times[c].trip_id = result.out[i].trip_id

\* A non-empty answer was computed while the snapshot had a stop-time update
\* for the stop of a trip the schedule does not list, and the schedule had
\* an in-window stop-time at the stop whose trip is not in the trips table.
C17_Witness ==
  /\ Asked
  /\ result.out # <<>>
  /\ \E k \in 1..Len(data.trip_updates) :
       /\ \A c \in Candidates : gtfs_data[1].stop_times[c].trip_id # data.trip_updates[k].key
       /\ \E j \in 1..Len(data.trip_updates[k].val.stop_time_updates) :
            data.trip_updates[k].val.stop_time_updates[j].stop_id = result.args.stop_id
  /\ \E i \in 1..Len(gtfs_data[1].stop_times) :
       /\ gtfs_data[1].stop_times[i].stop_id = result.args.stop_id
       /\ i \notin Candidates
       /\ WindowStart <= ScheduledInstant(i) /\ ScheduledInstant(i) <= WindowEnd

\* C18: when a trip update has several stop-time updates with the queried
\* stop id, the prediction is the one the first of them in list order
\* determines: its delay if it has one, else its absolute time if it has
\* one, else the schedule alone.
C18_FirstMatchOnly ==
  Asked =>
    \A t \in EligibleTrips :
      MatchesOf(t) # {} =>
        \A i \in PredictionsOf(t) :
          LET s == ScheduledInstant(Governing(t))
              p == result.out[i]
          IN IF "arrival_delay" \in DOMAIN FirstOf(t)
               THEN /\ p.delay_sec = FirstOf(t).arrival_delay
                    /\ Instant(p.arrival_time_iso) = s + FirstOf(t).arrival_delay
             ELSE IF HasAbsoluteTime(t)
               THEN /\ p.delay_sec = FirstOf(t).arrival_time[1] - s
                    /\ Instant(p.arrival_time_iso) = FirstOf(t).arrival_time[1]
             ELSE /\ p.delay_sec = 0
                  /\ Instant(p.arrival_time_iso) = s

\* A predicted trip has two stop-time updates for the stop: the first has
\* neither a delay nor a time, the second a delay, and the prediction is the
\* scheduled one.
C18_Witness ==
  /\ Asked
  /\ \E t \in EligibleTrips :
       /\ Cardinality(MatchesOf(t)) = 2
       /\ "arrival_delay" \notin DOMAIN FirstOf(t)
       /\ \E j \in MatchesOf(t) : "arrival_delay" \in DOMAIN UpdatesOf(t)[j]
       /\ PredictionsOf(t) # {}
       /\ \A i \in PredictionsOf(t) : result.out[i].delay_sec = 0

\* The schedule the static feed holds when it is available.
StaticFeed == SnapshotSchedule

\* The trips StaticFeed schedules at stop_id within the next horizon_minutes.
DueTrips(stop_id, horizon_minutes) ==
  {StaticFeed.stop_times[i].trip_id :
     i \in {c \in 1..Len(StaticFeed.stop_times) :
              LET st == StaticFeed.stop_times[c]
                  s == Instant(ScheduledDateTime(WallClock, st.arrival_time))
              IN /\ st.stop_id = stop_id
                 /\ \E k \in 1..Len(StaticFeed.trips) : StaticFeed.trips[k].key = st.trip_id
                 /\ Instant(WallClock) <= s
                 /\ s <= Instant(WallClock) + 60 * horizon_minutes}}

\* C19: with an empty trip-updates map, the answer of next_arrivals_tool for
\* stop S1 holds one prediction for every trip the static feed schedules
\* there inside the window, each with delay_sec = 0.
C19_ScheduleServedWithoutLiveData ==
  (result.tool = "next_arrivals_tool" /\ data.trip_updates = <<>>)
    => /\ {result.out[i].trip_id : i \in 1..Len(result.out)} = DueTrips("S1", 30)
       /\ Len(result.out) = Cardinality(DueTrips("S1", 30))
       /\ \A i \in 1..Len(result.out) : result.out[i].delay_sec = 0

\* The last step was a call of a query tool under the query specification.
Queried == "raised" \in DOMAIN result

\* The id the call names is absent from the data the tool reads.
LookupMiss ==
  LET arg == result.args.arg
  IN CASE result.tool = "next_arrivals_tool" ->
            \/ gtfs_data = None
            \/ \A i \in 1..Len(gtfs_data[1].stop_times) :
                 gtfs_data[1].stop_times[i].stop_id # arg
       [] result.tool = "vehicle_positions_tool" ->
            \A i \in 1..Len(data.vehicle_positions) :
              data.vehicle_positions[i].val.route_id # Some(arg)
       [] result.tool = "trip_alerts_tool" ->
            /\ arg # None
            /\ arg[1] # ""
            /\ \A i \in 1..Len(data.alerts) :
                 \A j \in 1..Len(data.alerts[i].informed_entities) :
                   LET ie == data.alerts[i].informed_entities[j]
                   IN "route_id" \in DOMAIN ie => ie.route_id # arg[1]
       [] result.tool = "search_stops_tool" ->
            \/ gtfs_data = None
            \/ \A i \in 1..Len(gtfs_data[1].stops) :
                 ~StopMatches(gtfs_data[1].stops[i].val, Lower(arg))
       [] result.tool = "list_routes_tool" -> FALSE

\* gtfs_data is null or holds no table.
StoreMissing == gtfs_data = None \/ gtfs_data[1] = EmptyGTFSData

Written(time_str) ==
  CHOOSE hms \in {<<h, ms[1], ms[2]>> : h \in TimeHours, ms \in TimeMinutesSeconds} :
    TimeText(hms) = time_str

\* The only stop-time of the time specification.
OnlyStopTime == gtfs_data[1].stop_times[1]

\* The wall-clock reading HH mod 24 : MM : SS on the date of current plus
\* HH div 24 days, for the time string written from hms.
PlacedWall(current, hms) ==
  (current.wall \div SECONDS_PER_DAY + hms[1] \div 24) * SECONDS_PER_DAY
    + (hms[1] % 24) * 3600 + hms[2] * 60 + hms[3]

\* C21: parse_gtfs_time of the string HH:MM:SS returns the wall time
\* (HH mod 24):MM:SS and the day offset HH div 24, also for HH >= 48; and a
\* prediction of next_arrivals for that stop-time reads that wall time on
\* the date of the call plus HH div 24 days, so that with HH >= 24 its date
\* is later than the date of the call and its time of day is that of the
\* hour HH mod 24.
C21_HourOverflowMovesTheDate ==
  /\ result.tool = "parse_gtfs_time" =>
       LET hms == Written(result.args.time_str)
       IN result.out = [hour |-> hms[1] % 24, minute |-> hms[2], second |-> hms[3],
                        days_offset |-> hms[1] \div 24]
  /\ (result.tool = "next_arrivals" /\ "args" \in DOMAIN result) =>
       LET hms == Written(OnlyStopTime.arrival_time)
           current == result.args.current
       IN \A i \in 1..Len(result.out) :
            LET at == result.out[i].arrival_time_iso
            IN /\ at.wall = PlacedWall(current, hms)
               /\ at.wall \div SECONDS_PER_DAY = current.wall \div SECONDS_PER_DAY + hms[1] \div 24
               /\ at.wall % SECONDS_PER_DAY = (hms[1] % 24) * 3600 + hms[2] * 60 + hms[3]
               /\ hms[1] >= 24 => at.wall \div SECONDS_PER_DAY > current.wall \div SECONDS_PER_DAY

\* A prediction for the string 48:15:00, two days after the day of the call.
C21_Witness ==
  /\ result.tool = "next_arrivals"
  /\ "args" \in DOMAIN result
  /\ OnlyStopTime.arrival_time = <<52, 56, 58, 49, 53, 58, 48, 48>>
  /\ Len(result.out) = 1
  /\ result.out[1].arrival_time_iso.wall \div SECONDS_PER_DAY
       = result.args.current.wall \div SECONDS_PER_DAY + 2

\* The text the translations of a field designate: that of the first
\* translation in English, else that of the first translation, else none.
DesignatedText(field) ==
  IF field = None \/ field[1] = <<>> THEN ""
  ELSE LET trs == field[1]
           english == {i \in 1..Len(trs) : trs[i].language = "en"}
       IN IF english = {} THEN trs[1].text
          ELSE trs[CHOOSE i \in english : \A j \in english : i <= j].text

\* C22: an alerts cycle that publishes gives every alert the designated
\* text of its header and of its description.
C22_FirstDesignatedTranslation ==
  [][\A k \in StartIds :
       (CycleEnds(k, "alert") /\ data'.alerts # data.alerts) =>
         LET ents == tasks[<<k, "alert">>].got.body.ents
         IN \A i \in 1..Len(ents) :
              /\ data'.alerts[i].header = DesignatedText(ents[i].alert[1].header_text)
              /\ data'.alerts[i].description
                   = DesignatedText(ents[i].alert[1].description_text)]_vars

\* In this step call i goes on: it begins, or ensure_initialized goes on.
CallMoves(i) == calls'[i].pc # calls[i].pc

\* C23: no call ends by an exception of ensure_initialized; when a call has
\* completed ensure_initialized, initialized is true and gtfs_data is a
\* dataset, whatever the load and the start of the poller did; and a call
\* that begins when initialized is true runs its tool body at once, without
\* a load and without starting the poller.
C23_InitializationAlwaysCompletes ==
  [][\A i \in CallIds :
       CallMoves(i) =>
         /\ calls'[i].pc # "raised"
         /\ calls'[i].pc = "done" => (initialized' /\ gtfs_data' # None)
         /\ (calls[i].pc = "idle" /\ initialized) =>
              /\ calls'[i].pc = "done"
              /\ gtfs_data' = gtfs_data
              /\ initialized' = initialized
              /\ UNCHANGED poller]_vars

\* The first call completed with the schedule its load returned, and the
\* second call, made after that, completed as well with one start of the
\* poller in all.
C23_Witness ==
  /\ calls[1].pc = "done"
  /\ calls[2].pc = "done"
  /\ initialized
  /\ gtfs_data = Some(QuerySchedule)
  /\ nstarts = 1
  /\ result.tool = "initialize_data"
  /\ result.out.routes_loaded = 2

\* In this step health_check returns.
HealthCheckReturns == result' # result /\ result'.tool = "health_check"

\* C24: a call of health_check leaves initialized, gtfs_data, the realtime
\* snapshot and the poller as they were, and starts no call of
\* ensure_initialized, whether initialized is true or false.
C24_HealthCheckOnlyReads ==
  [][HealthCheckReturns =>
       /\ initialized' = initialized
       /\ gtfs_data' = gtfs_data
       /\ data' = data
       /\ calls' = calls
       /\ UNCHANGED poller]_vars

\* health_check answered before any initialization, and nothing was loaded
\* or started.
C24_Witness ==
  /\ result.tool = "health_check"
  /\ "initialized" \in DOMAIN result.out
  /\ result.out.initialized = FALSE
  /\ ~initialized
  /\ gtfs_data = None
  /\ ~running

\* Text a comes before text b in the order of the code points.
RECURSIVE Precedes(_, _)
Precedes(a, b) ==
  /\ b # <<>>
  /\ \/ a = <<>>
     \/ a[1] < b[1]
     \/ a[1] = b[1] /\ Precedes(Tail(a), Tail(b))

\* The route of the store with the id route_id.
RouteOf(route_id) ==
  (CHOOSE e \in {gtfs_data[1].routes[i] : i \in 1..Len(gtfs_data[1].routes)} :
     e.key = route_id).val

\* C25: list_routes returns one entry for every route of the store, in
\* ascending order of short_name whatever the order of the store; the colour
\* of an entry is '#' followed by the route's colour value, and it is null
\* for a route without a colour value.
C25_RoutesSortedColourOrNull ==
  result.tool = "list_routes" =>
    LET routes == gtfs_data[1].routes
        out == result.out
    IN /\ Len(out) = Len(routes)
       /\ {out[i].route_id : i \in 1..Len(out)} = {routes[i].key : i \in 1..Len(routes)}
       /\ \A i, j \in 1..Len(out) : i < j => ~Precedes(out[j].short_name, out[i].short_name)
       /\ \A i \in 1..Len(out) :
            LET route == RouteOf(out[i].route_id)
            IN /\ out[i].short_name = route.route_short_name
               /\ out[i].long_name = route.route_long_name
               /\ IF route.route_color \in {None, Some(<<>>)}
                    THEN out[i].color = None
                    ELSE out[i].color = Some(<<35>> \o route.route_color[1])

\* The store held BL after N and NV, and the answer lists BL first, with
\* its colour, and the routes without a colour value after it.
C25_Witness ==
  /\ result.tool = "list_routes"
  /\ Len(gtfs_data[1].routes) = 3
  /\ gtfs_data[1].routes[3].key = <<66, 76>>
  /\ result.out[1].route_id = <<66, 76>>
  /\ result.out[1].color = Some(<<35, 48, 70>>)
  /\ result.out[2].color = None
  /\ result.out[3].color = None

\* A letter and its other case are the same character in a comparison that
\* ignores case.
SameLetter(a, b) ==
  \/ a = b
  \/ a >= 65 /\ a <= 90 /\ b = a + 32
  \/ b >= 65 /\ b <= 90 /\ a = b + 32

\* query occurs in text, case ignored.
OccursIn(query, text) ==
  \E start \in 0..(Len(text) - Len(query)) :
    \A j \in 1..Len(query) : SameLetter(query[j], text[start + j])

\* query occurs in the id, the name, the code or the description of stop.
Found(query, stop) ==
  \/ OccursIn(query, stop.stop_id)
  \/ OccursIn(query, stop.stop_name)
  \/ stop.stop_code # None /\ OccursIn(query, stop.stop_code[1])
  \/ stop.stop_desc # None /\ OccursIn(query, stop.stop_desc[1])

\* C26: search_stops returns exactly the stops in whose id, name, code or
\* description the query occurs, case ignored, with their id, name and
\* coordinates, in ascending order of name.
C26_SearchIsCaseBlindSubstring ==
  result.tool = "search_stops" =>
    LET stops == gtfs_data[1].stops
        out == result.out
        hits == {i \in 1..Len(stops) : Found(result.args.query, stops[i].val)}
    IN /\ Len(out) = Cardinality(hits)
       /\ {out[i] : i \in 1..Len(out)}
            = {[stop_id |-> stops[i].val.stop_id, name |-> stops[i].val.stop_name,
                lat |-> stops[i].val.stop_lat, lon |-> stops[i].val.stop_lon] : i \in hits}
       /\ \A i, j \in 1..Len(out) : i < j => ~Precedes(out[j].name, out[i].name)

\* The query "hub" found stop HUB by its id and name and stop X1 by its
\* description "HUB stop", and not stop CVS; Hub is listed before Pub.
C26_Witness ==
  /\ result.tool = "search_stops"
  /\ result.args.query = <<104, 117, 98>>
  /\ Len(gtfs_data[1].stops) = 3
  /\ gtfs_data[1].stops[1].key = <<88, 49>>
  /\ Len(result.out) = 2
  /\ result.out[1].stop_id = <<72, 85, 66>>
  /\ result.out[2].stop_id = <<88, 49>>

\* C27: search_stops_tool called with the empty query returns the empty
\* list, also when the store holds stops.
C27_EmptyQueryFindsNothing ==
  (Queried /\ result.tool = "search_stops_tool" /\ result.args.arg = <<>>)
    => result.out = <<>>

\* The k-th smallest element of a set of numbers.
Kth(S, k) == CHOOSE i \in S : Cardinality({j \in S : j <= i}) = k

\* C28: vehicle_positions_tool returns, in the order of the snapshot, one
\* entry with id, coordinates, bearing and speed for every vehicle whose
\* route_id is the route asked for, and no other entry; a vehicle without a
\* route is in no answer.
C28_VehiclesOfTheRouteOnly ==
  (Queried /\ result.tool = "vehicle_positions_tool") =>
    LET vehicles == data.vehicle_positions
        on == {i \in 1..Len(vehicles) : vehicles[i].val.route_id = Some(result.args.arg)}
    IN /\ Len(result.out) = Cardinality(on)
       /\ \A k \in 1..Len(result.out) :
            LET v == vehicles[Kth(on, k)].val
            IN /\ result.out[k].vehicle_id = vehicles[Kth(on, k)].key
               /\ result.out[k].lat = v.latitude
               /\ result.out[k].lon = v.longitude
               /\ result.out[k].bearing = v.bearing
               /\ result.out[k].speed_mps = v.speed
               /\ v.route_id # None

\* Route BL was asked for in a snapshot of five vehicles, one of them without
\* a route, and the two vehicles of BL were returned.
C28_Witness ==
  /\ Queried
  /\ result.tool = "vehicle_positions_tool"
  /\ result.args.arg = "BL"
  /\ Len(data.vehicle_positions) = 5
  /\ \E i \in 1..5 : data.vehicle_positions[i].val.route_id = None
  /\ Len(result.out) = 2
  /\ result.out[1].vehicle_id = "BUS_001"
  /\ result.out[2].vehicle_id = "BUS_004"

\* The alerts of the snapshot with an informed entity for route_id.
Informing(route_id) ==
  {i \in 1..Len(data.alerts) :
     \E j \in 1..Len(data.alerts[i].informed_entities) :
       LET ie == data.alerts[i].informed_entities[j]
       IN "route_id" \in DOMAIN ie /\ ie.route_id = route_id}

\* The answer of trip_alerts holds the alerts wanted (positions in the
\* snapshot) in snapshot order, each with the route ids of all its informed
\* entities in affected_routes.
AlertsAnswered(wanted) ==
  /\ Len(result.out) = Cardinality(wanted)
  /\ \A k \in 1..Len(result.out) :
       LET alert == data.alerts[Kth(wanted, k)]
           routed == {j \in 1..Len(alert.informed_entities) :
                        "route_id" \in DOMAIN alert.informed_entities[j]}
           affected == result.out[k].affected_routes
       IN /\ result.out[k].header = alert.header
          /\ result.out[k].description = alert.description
          /\ result.out[k].severity = alert.severity
          /\ Len(affected) = Cardinality(routed)
          /\ \A m \in 1..Len(affected) :
               affected[m] = alert.informed_entities[Kth(routed, m)].route_id

ToolReturns == result' # result /\ "raised" \in DOMAIN result'

\* C30: a call of list_routes, search_stops, next_arrivals,
\* vehicle_positions or trip_alerts through its tool leaves the schedule
\* store and the containers and timestamps of the snapshot as they were.
C30_QueriesOnlyRead ==
  [][ToolReturns => (gtfs_data' = gtfs_data /\ data' = data)]_vars

\* trip_alerts answered with the five alerts of the snapshot, and they are
\* still in it.
C30_Witness ==
  /\ Queried
  /\ result.tool = "trip_alerts_tool"
  /\ Len(result.out) = 5
  /\ Len(data.alerts) = 5
  /\ gtfs_data = Some(QuerySchedule)

(***************************************************************************)
(* Properties of stop() and start().                                       *)
(***************************************************************************)
\* stop() has been called after the one start() of the poller
\* specification, in which no start() follows a stop().
StoppedForGood == ~running /\ nstarts > 0

\* C31: once stop() has been called and no start() follows, no step changes
\* a container or a timestamp of the snapshot, also when a loop resumes
\* with the payload of a request that was in flight at the stop.
C31_NoWriteAfterStop ==
  [][StoppedForGood => data' = data]_vars

\* The ids of the entities of a feed that carry an alert, in feed order.
RECURSIVE AlertEntityIds(_)
AlertEntityIds(ents) ==
  IF ents = <<>> THEN <<>>
  ELSE (IF Head(ents).alert # None THEN <<Head(ents).id>> ELSE <<>>)
         \o AlertEntityIds(Tail(ents))

\* C32: after an alerts cycle whose payload was fetched and decoded, the
\* alerts list holds one ServiceAlert per feed entity that carries an alert,
\* with the id of that entity as alert_id, whether or not the alert has
\* informed entities.
C32_OneAlertPerAlertEntity ==
  [][\A k \in StartIds :
       LET got == tasks[<<k, "alert">>].got IN
       (CycleEnds(k, "alert") /\ got.how = "ok" /\ got.body.kind = "feed")
         => /\ Len(data'.alerts) = Len(AlertEntityIds(got.body.ents))
            /\ \A i \in 1..Len(data'.alerts) :
                 data'.alerts[i].alert_id = AlertEntityIds(got.body.ents)[i]]_vars

(***************************************************************************)
(* Properties of ensure_initialized.                                       *)
(***************************************************************************)
\* C33: the static feed being available, a completed ensure_initialized
\* leaves in gtfs_data the loaded schedule and not the empty fallback
\* dataset.
C33_LoadedScheduleIsKept ==
  initialized => (gtfs_data # None /\ gtfs_data[1] # EmptyGTFSData)

\* Call i is suspended inside the body of ensure_initialized.
InBody(i) == calls[i].pc \in {"loading", "starting"}

\* C34: a tool call made while another call is suspended inside the body of
\* ensure_initialized does not run the body itself: it performs no load,
\* starts no poller and does not set initialized.
C34_OneCallInitializes ==
  [][\A i, j \in CallIds :
       (i # j /\ InBody(j) /\ calls[i].pc = "idle" /\ calls'[i].pc # "idle")
         => (initialized' = initialized /\ nstarts' = nstarts /\ ~InBody(i)')]_vars

\* C35: while the running flag is set, no step creates a network session
\* or lets a further start() past the running test, and a poll task is
\* created only by a start() that is resuming from a stagger sleep it was
\* already in; a start() called meanwhile does nothing.
C35_StartWhileRunningDoesNothing ==
  [][running =>
       /\ nstarts' = nstarts
       /\ session' = session
       /\ \A t \in TaskIds :
            (tasks[t].pc = "none" /\ tasks'[t].pc # "none")
              => (starts[t[1]].pc \in {"sleep1", "sleep2"} /\ starts[t[1]].timer = 0)]_vars

\* A second tool call has run ensure_initialized, and with it start(), while
\* the start() of the first call was in its first stagger sleep: it has
\* returned, and there is still one session and the one vehicle task.
C35_Witness ==
  /\ calls[1].pc = "starting"
  /\ calls[2].pc = "done"
  /\ starts[1].pc = "sleep1"
  /\ running
  /\ nstarts = 1
  /\ session = 1
  /\ \A t \in TaskIds : tasks[t].pc # "none" <=> t = <<1, "vehicle">>

(***************************************************************************)
(* Properties that compare the answers of next_arrivals across snapshots.  *)
(***************************************************************************)
\* The trip ids of a list of predictions.
TripIdsOf(arrivals) == {arrivals[i].trip_id : i \in 1..Len(arrivals)}

\* The answer next_arrivals gives to the recorded call on snapshot d.
AnswerOn(d) ==
  NextArrivals(gtfs_data[1], d, result.args.stop_id, result.args.horizon_minutes,
               result.args.current)

\* C36: the trips in the answer of next_arrivals are the trips in its
\* answer for the same schedule, stop, horizon and current time on every
\* other snapshot, and they are the trips scheduled in the window; a
\* snapshot changes the predicted instant and delay_sec only.
C36_TripsDependOnScheduleOnly ==
  Asked =>
    /\ TripIdsOf(result.out) = EligibleTrips
    /\ \A d \in ArrivalSnapshots :
         /\ TripIdsOf(AnswerOn(d)) = TripIdsOf(result.out)
         /\ Len(AnswerOn(d)) = Len(result.out)
         /\ \A i \in 1..Len(result.out) : \E j \in 1..Len(AnswerOn(d)) :
              /\ AnswerOn(d)[j].trip_id = result.out[i].trip_id
              /\ AnswerOn(d)[j].route_id = result.out[i].route_id

\* The answer holds a trip whose trip update moved its predicted instant
\* past the end of the window, and the snapshot is not the empty one.
C36_Witness ==
  /\ Asked
  /\ data.trip_updates # <<>>
  /\ \E i \in 1..Len(result.out) :
       /\ result.out[i].delay_sec > 0
       /\ Instant(result.out[i].arrival_time_iso) > WindowEnd

(***************************************************************************)
(* Properties of the stagger of start().                                   *)
(***************************************************************************)
\* The loop of the first start() for category c has issued a request: it is
\* past its while test (the poller is not stopped here, so a loop past the
\* test has fetched), or it is at the test again, which for the first two
\* loops is the case when they are ready after start() has returned.
Requested(c) ==
  \/ tasks[<<1, c>>].pc \in {"fetching", "fetched", "sleeping"}
  \/ tasks[<<1, c>>].pc = "ready" /\ c # "alert" /\ starts[1].pc = "done"

\* start() is in its first or its second stagger sleep.
FirstSleep == starts[1].pc = "sleep1"
SecondSleep == starts[1].pc = "sleep2"

\* C37: after start() the first requests go out in the order vehicle
\* positions, trip updates, alerts, each in a stagger interval of its own:
\* the vehicle request before any time of the first sleep has passed and
\* no other request during that sleep, the trip-updates request at the
\* beginning of the second sleep and no alerts request during it, the
\* alerts request after it.
C37_FirstRequestsAreStaggered ==
  /\ Requested("alert") => Requested("trip")
  /\ Requested("trip") => Requested("vehicle")
  /\ FirstSleep => (~Requested("trip") /\ ~Requested("alert"))
  /\ SecondSleep => ~Requested("alert")
  /\ (FirstSleep /\ starts[1].timer < STAGGER_SLEEP) => Requested("vehicle")
  /\ (SecondSleep /\ starts[1].timer < STAGGER_SLEEP) => Requested("trip")
  /\ (Requested("vehicle") \/ Requested("trip") \/ Requested("alert")) => starts[1].pc # "none"

\* The three loops have each issued a request and start() has returned.
C37_Witness ==
  /\ starts[1].pc = "done"
  /\ Requested("vehicle") /\ Requested("trip") /\ Requested("alert")
  /\ tasks[<<1, "alert">>].pc = "fetching"

(***************************************************************************)
(* Properties of stop().                                                   *)
(***************************************************************************)
\* In this step stop() is called on a running poller.
StopWhileRunning == running /\ ~running'

\* C38: a call of stop() clears the running flag and closes the session,
\* and leaves the vehicle map, the trip-update map, the alerts list and the
\* three timestamps as they were, along with the server's own state.
C38_StopKeepsTheSnapshot ==
  [][StopWhileRunning =>
       /\ data' = data
       /\ session \in closed'
       /\ <<session, nstarts, starts, initialized, gtfs_data, calls>>'
            = <<session, nstarts, starts, initialized, gtfs_data, calls>>]_vars

\* The poller was stopped after vehicle positions had been published: the
\* session is closed, and the vehicles and their timestamp are in the
\* snapshot.
C38_Witness ==
  /\ ~running
  /\ session \in closed
  /\ data.vehicle_positions # <<>>
  /\ data.last_vehicle_update # None
  /\ tasks[<<1, "vehicle">>].stopped
  /\ tasks[<<1, "vehicle">>].pc = "sleeping"

====
